---------------------------- MODULE Spec2Model ----------------------------
(***************************************************************************)
(* A model of the streaming JSON-LD expansion converter of oxjsonld        *)
(* (lib/oxjsonld/src/expansion.rs), of its context processor               *)
(* (lib/oxjsonld/src/context.rs) and of the IRI expansion subroutine.      *)
(*                                                                         *)
(* Strings are sequences of one-character strings, so that prefix tests,   *)
(* splitting and concatenation are computed as the code computes them.     *)
(* An Option<T> is a sequence of length at most one: <<>> is None and      *)
(* <<x>> is Some(x).                                                       *)
(***************************************************************************)
EXTENDS Integers, Sequences, FiniteSets, TLC

(***************************************************************************)
(* Bounds of the model.                                                    *)
(***************************************************************************)
\* tokens of one document fed in a behaviour of Spec (Eof not counted)
MaxTokens == 8
\* nesting depth of arrays and objects in a document of Spec
MaxDepth == 3
\* tokens fed after the state stack has grown past the cap, in SpecDepth
MaxDropped == 3

(***************************************************************************)
(* Program constants.                                                      *)
(***************************************************************************)
\* expansion.rs:116  if self.state.len() > 4096
MaxStateStack == 4096

(***************************************************************************)
(* Strings.                                                                *)
(***************************************************************************)
None == <<>>

Some(x) == <<x>>

IsSome(o) == Len(o) > 0

Unwrap(o) == o[1]

(***************************************************************************)
(* Stacks.  A Vec used as a stack is written run-length encoded: a         *)
(* sequence of runs [x, n], n >= 1 copies of x, adjacent runs holding      *)
(* different elements, the top of the stack in the last run.  A stack of   *)
(* 4097 equal states is one run.                                           *)
(***************************************************************************)
EmptyStack == <<>>

\* Vec::len
RECURSIVE StackLen(_)
StackLen(r) == IF r = <<>> THEN 0 ELSE r[Len(r)].n + StackLen(SubSeq(r, 1, Len(r) - 1))

\* Vec::last, on a non-empty stack
StackTop(r) == r[Len(r)].x

\* Vec::push
StackPush(r, x) ==
    IF r # <<>> /\ r[Len(r)].x = x
    THEN [r EXCEPT ![Len(r)].n = @ + 1]
    ELSE Append(r, [x |-> x, n |-> 1])

\* Vec::pop, on a non-empty stack: the stack left
StackPop(r) ==
    IF r[Len(r)].n > 1
    THEN [r EXCEPT ![Len(r)].n = @ - 1]
    ELSE SubSeq(r, 1, Len(r) - 1)

\* the elements of the sequence xs pushed in order
RECURSIVE StackPushAll(_, _)
StackPushAll(r, xs) ==
    IF xs = <<>> THEN r ELSE StackPushAll(StackPush(r, Head(xs)), Tail(xs))

LowerLetters ==
    {"a","b","c","d","e","f","g","h","i","j","k","l","m",
     "n","o","p","q","r","s","t","u","v","w","x","y","z"}

UpperLetters ==
    {"A","B","C","D","E","F","G","H","I","J","K","L","M",
     "N","O","P","Q","R","S","T","U","V","W","X","Y","Z"}

\* u8::is_ascii_alphabetic
IsAsciiAlphabetic(c) == c \in LowerLetters \cup UpperLetters

Digits == {"0","1","2","3","4","5","6","7","8","9"}

\* str::starts_with
StartsWith(s, p) ==
    /\ Len(s) >= Len(p)
    /\ SubSeq(s, 1, Len(p)) = p

\* index of the first occurrence of character c in s, 0 when there is none
IndexOf(s, c) ==
    IF \E i \in 1..Len(s) : s[i] = c
    THEN CHOOSE i \in 1..Len(s) : s[i] = c /\ \A j \in 1..(i - 1) : s[j] # c
    ELSE 0

\* index of the last occurrence of character c in s, 0 when there is none
LastIndexOf(s, c) ==
    IF \E i \in 1..Len(s) : s[i] = c
    THEN CHOOSE i \in 1..Len(s) : s[i] = c /\ \A j \in (i + 1)..Len(s) : s[j] # c
    ELSE 0

\* the keywords expand_iri recognises, without their leading '@'
ReservedKeywords ==
    { <<"b","a","s","e">>,
      <<"c","o","n","t","a","i","n","e","r">>,
      <<"c","o","n","t","e","x","t">>,
      <<"d","i","r","e","c","t","i","o","n">>,
      <<"g","r","a","p","h">>,
      <<"i","d">>,
      <<"i","m","p","o","r","t">>,
      <<"i","n","c","l","u","d","e","d">>,
      <<"i","n","d","e","x">>,
      <<"j","s","o","n">>,
      <<"l","a","n","g","u","a","g","e">>,
      <<"l","i","s","t">>,
      <<"n","e","s","t">>,
      <<"n","o","n","e">>,
      <<"p","r","e","f","i","x">>,
      <<"p","r","o","p","a","g","a","t","e">>,
      <<"p","r","o","t","e","c","t","e","d">>,
      <<"r","e","v","e","r","s","e">>,
      <<"s","e","t">>,
      <<"t","y","p","e">>,
      <<"v","a","l","u","e">>,
      <<"v","e","r","s","i","o","n">>,
      <<"v","o","c","a","b">> }

KwBase == <<"b","a","s","e">>
KwContext == <<"c","o","n","t","e","x","t">>
KwDirection == <<"d","i","r","e","c","t","i","o","n">>
KwGraph == <<"g","r","a","p","h">>
KwId == <<"i","d">>
KwImport == <<"i","m","p","o","r","t">>
KwLanguage == <<"l","a","n","g","u","a","g","e">>
KwPropagate == <<"p","r","o","p","a","g","a","t","e">>
KwProtected == <<"p","r","o","t","e","c","t","e","d">>
KwType == <<"t","y","p","e">>
KwValue == <<"v","a","l","u","e">>
KwVersion == <<"v","e","r","s","i","o","n">>
KwVocab == <<"v","o","c","a","b">>

\* the key "@" + k
At(k) == <<"@">> \o k

(***************************************************************************)
(* The IRI library (oxiri), as far as the code under src/ uses it:         *)
(* Iri::parse accepts a string that has a scheme (a letter, then letters,  *)
(* digits, '+', '-', '.', up to the first ':') and holds none of the       *)
(* characters RFC 3987 forbids; resolve merges a relative reference with   *)
(* the base (RFC 3986 5.2.3, references without dot segments).             *)
(***************************************************************************)
ForbiddenIriChars == {" ", "<", ">", "{", "}", "|", "^"}

HasForbiddenChar(s) == \E i \in 1..Len(s) : s[i] \in ForbiddenIriChars

HasScheme(s) ==
    LET i == IndexOf(s, ":")
    IN  /\ i > 1
        /\ IsAsciiAlphabetic(s[1])
        /\ \A j \in 2..(i - 1) :
              IsAsciiAlphabetic(s[j]) \/ s[j] \in Digits \cup {"+", "-", "."}

\* Iri::parse(s).is_ok()
IriParseOk(s) == HasScheme(s) /\ ~HasForbiddenChar(s)

\* Iri::resolve_unchecked: the reference itself when it is absolute, else
\* the base up to its last '/' followed by the reference
ResolveUnchecked(base, ref) ==
    IF HasScheme(ref) THEN ref
    ELSE IF ref = <<>> THEN base
    ELSE SubSeq(base, 1, LastIndexOf(base, "/")) \o ref

\* Iri::resolve(ref).is_ok()
ResolveOk(base, ref) == ~HasForbiddenChar(ref)

(***************************************************************************)
(* Active contexts (context.rs).  term_definitions is the set of the       *)
(* map's entries, each [name, iri_mapping, prefix, protected], with at     *)
(* most one entry per name.                                                *)
(***************************************************************************)
\* JsonLdContext::default()
DefaultContext ==
    [ base_iri |-> None,
      original_base_url |-> None,
      vocabulary_mapping |-> None,
      default_language |-> None,
      term_definitions |-> {},
      previous_context |-> None ]

\* JsonLdContext::new_empty
NewEmpty(original_base_url) ==
    [ base_iri |-> original_base_url,
      original_base_url |-> original_base_url,
      vocabulary_mapping |-> None,
      default_language |-> None,
      term_definitions |-> {},
      previous_context |-> None ]

\* term_definitions.get(name), as an Option
TermGet(ctx, name) ==
    IF \E d \in ctx.term_definitions : d.name = name
    THEN Some(CHOOSE d \in ctx.term_definitions : d.name = name)
    ELSE None

(***************************************************************************)
(* IRI expansion (expansion.rs, expand_iri).  The result is                *)
(* [k |-> "None" | "Id" | "Keyword", s |-> the string].                    *)
(***************************************************************************)
NoIri == [k |-> "None", s |-> <<>>]

IdOf(s) == [k |-> "Id", s |-> s]

KeywordOf(s) == [k |-> "Keyword", s |-> s]

\* AtBranch with a slip: only a lower-case suffix is dropped
AtBranchLowerOnly(suffix) ==
    IF suffix \in ReservedKeywords THEN "keyword"
    ELSE IF \A i \in 1..Len(suffix) : suffix[i] \in LowerLetters THEN "drop"
    ELSE "fall"

\* AtBranch with a slip: every suffix that is no reserved keyword is dropped
AtBranchDropAll(suffix) ==
    IF suffix \in ReservedKeywords THEN "keyword" ELSE "drop"

\* step 1 and 2: the branch taken for a string that starts with '@'
\* "keyword": a reserved keyword, "drop": only letters, "fall": anything else
AtBranch(suffix) ==
    IF suffix \in ReservedKeywords THEN "keyword"
    ELSE IF \A i \in 1..Len(suffix) : IsAsciiAlphabetic(suffix[i]) THEN "drop"
    ELSE "fall"

\* steps 6.1 to 6.5, for a value that holds a ':' at index i
ExpandCompact(ctx, value, i) ==
    LET prefix == SubSeq(value, 1, i - 1)
        suffix == SubSeq(value, i + 1, Len(value))
        def == TermGet(ctx, value)
    IN  IF prefix = <<"_">> \/ StartsWith(suffix, <<"/", "/">>)
        THEN IdOf(value)
        ELSE IF IsSome(def) /\ IsSome(Unwrap(def).iri_mapping) /\ Unwrap(def).prefix
        THEN IdOf(Unwrap(Unwrap(def).iri_mapping) \o suffix)
        ELSE IF IriParseOk(value)
        THEN IdOf(value)
        ELSE NoIri

\* ExpandRelative with a slip: the vocabulary mapping is applied whatever
\* the vocab flag
ExpandRelativeAlwaysVocab(ctx, lenient, value, document_relative, vocab) ==
    IF IsSome(ctx.vocabulary_mapping)
    THEN IdOf(Unwrap(ctx.vocabulary_mapping) \o value)
    ELSE IF document_relative /\ IsSome(ctx.base_iri) /\ lenient
    THEN IdOf(ResolveUnchecked(Unwrap(ctx.base_iri), value))
    ELSE IF document_relative /\ IsSome(ctx.base_iri)
            /\ ResolveOk(Unwrap(ctx.base_iri), value)
    THEN IdOf(ResolveUnchecked(Unwrap(ctx.base_iri),
                               ResolveUnchecked(Unwrap(ctx.base_iri), value)))
    ELSE IdOf(value)

\* steps 7 and 8 and the final return
ExpandRelative(ctx, lenient, value, document_relative, vocab) ==
    IF vocab /\ IsSome(ctx.vocabulary_mapping)
    THEN IdOf(Unwrap(ctx.vocabulary_mapping) \o value)
    ELSE IF document_relative /\ IsSome(ctx.base_iri) /\ lenient
    THEN IdOf(ResolveUnchecked(Unwrap(ctx.base_iri), value))
    ELSE IF document_relative /\ IsSome(ctx.base_iri)
            /\ ResolveOk(Unwrap(ctx.base_iri), value)
    THEN IdOf(ResolveUnchecked(Unwrap(ctx.base_iri),
                               ResolveUnchecked(Unwrap(ctx.base_iri), value)))
    ELSE IdOf(value)

\* steps 3 to 8, taken when the value is no keyword-like string
ExpandTerm(ctx, lenient, value, document_relative, vocab) ==
    LET def == TermGet(ctx, value)
        mapping == IF IsSome(def) THEN Unwrap(def).iri_mapping ELSE None
        i == IndexOf(value, ":")
        compact == IF i > 0 THEN ExpandCompact(ctx, value, i) ELSE NoIri
    IN  IF IsSome(mapping) /\ StartsWith(Unwrap(mapping), <<"@">>)
        THEN KeywordOf(Tail(Unwrap(mapping)))
        ELSE IF IsSome(mapping) /\ vocab
        THEN IdOf(Unwrap(mapping))
        ELSE IF compact.k # "None"
        THEN compact
        ELSE ExpandRelative(ctx, lenient, value, document_relative, vocab)

\* expand_iri(&self, value, document_relative, vocab) with self.context() = ctx
expand_iri(ctx, lenient, value, document_relative, vocab) ==
    IF StartsWith(value, <<"@">>) /\ AtBranch(Tail(value)) = "keyword"
    THEN KeywordOf(Tail(value))
    ELSE IF StartsWith(value, <<"@">>) /\ AtBranch(Tail(value)) = "drop"
    THEN NoIri
    ELSE ExpandTerm(ctx, lenient, value, document_relative, vocab)

(***************************************************************************)
(* Diagnostics.  JsonLdSyntaxError::msg(m) has no code (code = "");        *)
(* msg_and_code(m, c) carries the code.  arg is the value a format!        *)
(* message interpolates (<<>> when it interpolates none).                  *)
(***************************************************************************)
Msg(m) == [msg |-> m, code |-> "", arg |-> <<>>]

MsgArg(m, a) == [msg |-> m, code |-> "", arg |-> a]

MsgAndCode(m, c) == [msg |-> m, code |-> c, arg |-> <<>>]

MsgAndCodeArg(m, c, a) == [msg |-> m, code |-> c, arg |-> a]

(***************************************************************************)
(* JSON nodes (context.rs, JsonNode).  An Object is the set of its         *)
(* entries [key, v], one per key: HashMap::insert replaces the entry       *)
(* of an equal key.                                                        *)
(***************************************************************************)
NodeNull == [k |-> "Null"]

NodeString(s) == [k |-> "String", s |-> s]

NodeNumber(s) == [k |-> "Number", s |-> s]

NodeBoolean(b) == [k |-> "Boolean", b |-> b]

NodeArray(items) == [k |-> "Array", items |-> items]

NodeObject(entries) == [k |-> "Object", entries |-> entries]

\* HashMap::insert(key, v) on the entries of an Object
MapInsert(entries, key, v) ==
    {e \in entries : e.key # key} \cup {[key |-> key, v |-> v]}

\* HashMap::get(key), as an Option
MapGet(entries, key) ==
    IF \E e \in entries : e.key = key
    THEN Some((CHOOSE e \in entries : e.key = key).v)
    ELSE None

\* EntryBase with a slip: the entry is applied whatever remote_contexts holds
EntryBaseIgnoringRemote(acc, value, par) ==
    LET base == acc.ctx.base_iri
        ok == IF IsSome(base) THEN ResolveOk(Unwrap(base), value.s)
              ELSE IriParseOk(value.s)
        iri == IF IsSome(base) THEN ResolveUnchecked(Unwrap(base), value.s)
               ELSE value.s
    IN  IF value.k = "Null"
        THEN [acc EXCEPT !.ctx.base_iri = None]
        ELSE IF value.k = "String" /\ (par.lenient \/ ok)
        THEN [acc EXCEPT !.ctx.base_iri = Some(iri)]
        ELSE IF value.k = "String"
        THEN [acc EXCEPT !.errs = Append(@, MsgAndCodeArg("Invalid @base '{value}': {e}",
                                                          "invalid base IRI", value.s))]
        ELSE [acc EXCEPT !.errs = Append(@, MsgAndCode("@base value must be a string",
                                                       "invalid base IRI"))]

\* EntryVocab with a slip: a string that does not parse is stored all the same
EntryVocabUnchecked(acc, value, par) ==
    IF value.k = "Null"
    THEN [acc EXCEPT !.ctx.vocabulary_mapping = None]
    ELSE IF value.k = "String"
    THEN [acc EXCEPT !.ctx.vocabulary_mapping = Some(value.s)]
    ELSE [acc EXCEPT !.errs = Append(@, MsgAndCode("@vocab value must be a string",
                                                   "invalid vocab mapping"))]

\* EntryVersion with a slip: the processing mode is not looked at
EntryVersionAnyMode(acc, value, par) ==
    LET e1 == IF value.k = "Number" /\ value.s = <<"1", ".", "1">> THEN <<>>
              ELSE IF value.k = "Number"
              THEN << MsgAndCodeArg("The only supported @version value is 1.1, found {version}",
                                    "invalid @version value", value.s) >>
              ELSE << MsgAndCode("@version value must be a number",
                                 "invalid @version value") >>
    IN  [acc EXCEPT !.errs = @ \o e1]

(***************************************************************************)
(* Context processing (context.rs, process_context).  An accumulator is    *)
(* [ctx, errs, abort]: the result so far, the diagnostics appended so      *)
(* far, and whether an unimplemented!() has been reached.  A HashMap       *)
(* is iterated in an unspecified order, so the operators return the set    *)
(* of the accumulators some order produces.                                *)
(***************************************************************************)
\* 5.5) the "@version" entry
EntryVersion(acc, value, par) ==
    LET e1 == IF value.k = "Number" /\ value.s = <<"1", ".", "1">> THEN <<>>
              ELSE IF value.k = "Number"
              THEN << MsgAndCodeArg("The only supported @version value is 1.1, found {version}",
                                    "invalid @version value", value.s) >>
              ELSE << MsgAndCode("@version value must be a number",
                                 "invalid @version value") >>
        e2 == IF par.processing_mode = "JsonLd1_0"
              THEN << MsgAndCode("@version is only supported in JSON-LD 1.1",
                                 "processing mode conflict") >>
              ELSE <<>>
    IN  [acc EXCEPT !.errs = @ \o e1 \o e2]

\* 5.6) the "@import" entry
EntryImport(acc, value, par) ==
    [acc EXCEPT !.errs = IF par.processing_mode = "JsonLd1_0"
                         THEN Append(@, MsgAndCode("@import is only supported in JSON-LD 1.1",
                                                   "invalid context entry"))
                         ELSE @,
                !.abort = TRUE]

\* 5.7) the "@base" entry
EntryBase(acc, value, par) ==
    LET base == acc.ctx.base_iri
        ok == IF IsSome(base) THEN ResolveOk(Unwrap(base), value.s)
              ELSE IriParseOk(value.s)
        iri == IF IsSome(base) THEN ResolveUnchecked(Unwrap(base), value.s)
               ELSE value.s
    IN  IF par.remote_contexts # <<>> THEN acc
        ELSE IF value.k = "Null"
        THEN [acc EXCEPT !.ctx.base_iri = None]
        ELSE IF value.k = "String" /\ (par.lenient \/ ok)
        THEN [acc EXCEPT !.ctx.base_iri = Some(iri)]
        ELSE IF value.k = "String"
        THEN [acc EXCEPT !.errs = Append(@, MsgAndCodeArg("Invalid @base '{value}': {e}",
                                                          "invalid base IRI", value.s))]
        ELSE [acc EXCEPT !.errs = Append(@, MsgAndCode("@base value must be a string",
                                                       "invalid base IRI"))]

\* 5.8) the "@vocab" entry
EntryVocab(acc, value, par) ==
    IF value.k = "Null"
    THEN [acc EXCEPT !.ctx.vocabulary_mapping = None]
    ELSE IF value.k = "String"
            /\ (StartsWith(value.s, <<"_", ":">>) \/ par.lenient \/ IriParseOk(value.s))
    THEN [acc EXCEPT !.ctx.vocabulary_mapping = Some(value.s)]
    ELSE IF value.k = "String"
    THEN [acc EXCEPT !.errs = Append(@, MsgAndCodeArg("Invalid @vocab '{value}': {e}",
                                                      "invalid vocab mapping", value.s))]
    ELSE [acc EXCEPT !.errs = Append(@, MsgAndCode("@vocab value must be a string",
                                                   "invalid vocab mapping"))]

\* the body of `for (key, value) in context`, for one entry
ProcessEntry(acc, key, value, par) ==
    IF key = At(KwVersion) THEN EntryVersion(acc, value, par)
    ELSE IF key = At(KwImport) THEN EntryImport(acc, value, par)
    ELSE IF key = At(KwBase) THEN EntryBase(acc, value, par)
    ELSE IF key = At(KwVocab) THEN EntryVocab(acc, value, par)
    ELSE IF key = At(KwProtected) THEN acc
    ELSE [acc EXCEPT !.abort = TRUE]

\* `for (key, value) in context`: the entries in every order; the loop
\* ends at the first entry that reaches unimplemented!()
RECURSIVE ProcessEntries(_, _, _)
ProcessEntries(acc, entries, par) ==
    IF acc.abort \/ entries = {} THEN {acc}
    ELSE UNION { ProcessEntries(ProcessEntry(acc, e.key, e.v, par), entries \ {e}, par)
                 : e \in entries }

\* 5.1.1) one diagnostic per protected term, the terms in every order
RECURSIVE ProtectedErrors(_)
ProtectedErrors(defs) ==
    IF defs = {} THEN { <<>> }
    ELSE UNION { { << MsgAndCodeArg("Definition of {name} will be overridden even if it's protected",
                                    "invalid context nullification", d.name) >> \o rest
                   : rest \in ProtectedErrors(defs \ {d}) }
                 : d \in defs }

\* ContextNull with a slip: the result is not replaced by an empty context
ContextNullKeeping(acc, par) ==
    LET protected == {d \in par.active_context.term_definitions : d.protected}
        errs == IF par.override_protected THEN { <<>> } ELSE ProtectedErrors(protected)
    IN  { [acc EXCEPT !.errs = @ \o e] : e \in errs }

\* 5.1) a null context
ContextNull(acc, par) ==
    LET protected == {d \in par.active_context.term_definitions : d.protected}
        errs == IF par.override_protected THEN { <<>> } ELSE ProtectedErrors(protected)
    IN  { [acc EXCEPT !.ctx = NewEmpty(par.active_context.original_base_url),
                      !.errs = @ \o e] : e \in errs }

\* the body of `for context in local_context`, for one context
ProcessOne(acc, context, par) ==
    IF context.k = "Null" THEN ContextNull(acc, par)
    ELSE IF context.k = "String" THEN { [acc EXCEPT !.abort = TRUE] }
    ELSE IF context.k \in {"Array", "Number", "Boolean"}
    THEN { [acc EXCEPT !.errs = Append(@,
               MsgAndCode("@context value must be null, a string or an object",
                          "invalid local context"))] }
    ELSE ProcessEntries(acc, context.entries, par)

\* 5) `for context in local_context`, from index i on
RECURSIVE ProcessList(_, _, _, _)
ProcessList(acc, list, i, par) ==
    IF acc.abort \/ i > Len(list) THEN {acc}
    ELSE UNION { ProcessList(a, list, i + 1, par) : a \in ProcessOne(acc, list[i], par) }

\* process_context: the set of [ctx, errs, abort] it can end with; errs are
\* the diagnostics it appends to the caller's buffer
process_context(active_context, local_context, base_url, remote_contexts, override_protected, propagate, processing_mode, lenient) ==
    LET pnode == IF local_context.k = "Object"
                 THEN MapGet(local_context.entries, At(KwPropagate))
                 ELSE None
        propagate2 == IF IsSome(pnode) /\ Unwrap(pnode).k = "Boolean"
                      THEN Unwrap(pnode).b ELSE propagate
        errs0 == IF IsSome(pnode) /\ Unwrap(pnode).k # "Boolean"
                 THEN << Msg("@propagate value must be a boolean") >> ELSE <<>>
        result0 == IF ~propagate2 /\ active_context.previous_context = None
                   THEN [active_context EXCEPT !.previous_context = Some(active_context)]
                   ELSE active_context
        list == IF local_context.k = "Array" THEN local_context.items
                ELSE << local_context >>
        par == [ active_context |-> active_context,
                 remote_contexts |-> remote_contexts,
                 override_protected |-> override_protected,
                 processing_mode |-> processing_mode,
                 lenient |-> lenient ]
    IN  ProcessList([ctx |-> result0, errs |-> errs0, abort |-> FALSE], list, 1, par)

(***************************************************************************)
(* JSON tokens (json_event_parser::JsonEvent), emitted events              *)
(* (JsonLdEvent), literal values (JsonLdValue) and expansion states        *)
(* (JsonLdExpansionState).                                                 *)
(***************************************************************************)
TokNull == [t |-> "Null"]
TokBoolean(b) == [t |-> "Boolean", b |-> b]
TokNumber(s) == [t |-> "Number", s |-> s]
TokString(s) == [t |-> "String", s |-> s]
TokStartArray == [t |-> "StartArray"]
TokEndArray == [t |-> "EndArray"]
TokStartObject == [t |-> "StartObject"]
TokEndObject == [t |-> "EndObject"]
TokObjectKey(s) == [t |-> "ObjectKey", s |-> s]
TokEof == [t |-> "Eof"]

ValString(s) == [k |-> "String", s |-> s]
ValNumber(s) == [k |-> "Number", s |-> s]
ValBoolean(b) == [k |-> "Boolean", b |-> b]

EvStartObject(types) == [e |-> "StartObject", types |-> types]
EvEndObject == [e |-> "EndObject"]
EvStartProperty(iri) == [e |-> "StartProperty", iri |-> iri]
EvEndProperty == [e |-> "EndProperty"]
EvId(iri) == [e |-> "Id", iri |-> iri]
EvValue(value, type, language) ==
    [e |-> "Value", value |-> value, type |-> type, language |-> language]

StElement == [tag |-> "Element"]
StElementArray == [tag |-> "ElementArray"]
StObjectStart(types, id) == [tag |-> "ObjectStart", types |-> types, id |-> id]
StObjectType(types, id) == [tag |-> "ObjectType", types |-> types, id |-> id]
StObjectTypeArray(types, id) == [tag |-> "ObjectTypeArray", types |-> types, id |-> id]
StObjectId(types, id, from_start) ==
    [tag |-> "ObjectId", types |-> types, id |-> id, from_start |-> from_start]
StObject(in_property) == [tag |-> "Object", in_property |-> in_property]
StValue(type, value, language) ==
    [tag |-> "Value", type |-> type, value |-> value, language |-> language]
StValueValue(type, language) ==
    [tag |-> "ValueValue", type |-> type, language |-> language]
StValueLanguage(type, value) ==
    [tag |-> "ValueLanguage", type |-> type, value |-> value]
StValueType(value, language) ==
    [tag |-> "ValueType", value |-> value, language |-> language]
StToNode(stack, current_key, end_state) ==
    [tag |-> "ToNode", stack |-> stack, current_key |-> current_key,
     end_state |-> end_state]
StSkip == [tag |-> "Skip"]
StSkipArray == [tag |-> "SkipArray"]

(***************************************************************************)
(* What one arm of convert_event's match does once the top state has       *)
(* been popped: the states it pushes (in order), the events and the        *)
(* diagnostics it appends, and what it does to the context stack           *)
(* (cx: "keep", "same" = push_same_context, "pop" = pop_context,           *)
(* "buffered" = after_buffering(node)).  abort: the arm panics.            *)
(***************************************************************************)
Arm(push, res, err) ==
    [push |-> push, res |-> res, err |-> err, cx |-> "keep", node |-> NodeNull,
     abort |-> FALSE]

ArmCx(push, res, err, cx) ==
    [push |-> push, res |-> res, err |-> err, cx |-> cx, node |-> NodeNull,
     abort |-> FALSE]

ArmBuffered(node) ==
    [push |-> <<>>, res |-> <<>>, err |-> <<>>, cx |-> "buffered", node |-> node,
     abort |-> FALSE]

\* unreachable!(), expect(..) on None, unimplemented!()
ArmPanic ==
    [push |-> <<>>, res |-> <<>>, err |-> <<>>, cx |-> "keep", node |-> NodeNull,
     abort |-> TRUE]

\* the literal a scalar token carries
ScalarValue(ev) ==
    IF ev.t = "String" THEN ValString(ev.s)
    ELSE IF ev.t = "Number" THEN ValNumber(ev.s)
    ELSE ValBoolean(ev.b)

\* expand_value: the events it appends
expand_value(value) == << EvValue(value, None, None) >>

\* OnElement with a slip: ElementArray is not pushed back for the next item
OnElementNoRepush(state, ev) ==
    CASE ev.t = "Null" -> Arm(<<>>, <<>>, <<>>)
      [] ev.t \in {"String", "Number", "Boolean"} ->
            Arm(<<>>, expand_value(ScalarValue(ev)), <<>>)
      [] ev.t = "StartArray" -> Arm(<< StElementArray >>, <<>>, <<>>)
      [] ev.t = "EndArray" -> Arm(<<>>, <<>>, <<>>)
      [] ev.t = "StartObject" ->
            ArmCx(<< StObjectStart(<<>>, None) >>, <<>>, <<>>, "same")
      [] OTHER -> ArmPanic

\* OnElement with a slip: a number emits no event
OnElementDropsNumbers(state, ev) ==
    LET again == IF state.tag = "ElementArray" THEN << StElementArray >> ELSE <<>>
    IN  CASE ev.t \in {"Null", "Number"} -> Arm(again, <<>>, <<>>)
          [] ev.t \in {"String", "Boolean"} ->
                Arm(again, expand_value(ScalarValue(ev)), <<>>)
          [] ev.t = "StartArray" -> Arm(again \o << StElementArray >>, <<>>, <<>>)
          [] ev.t = "EndArray" -> Arm(<<>>, <<>>, <<>>)
          [] ev.t = "StartObject" ->
                ArmCx(again \o << StObjectStart(<<>>, None) >>, <<>>, <<>>, "same")
          [] OTHER -> ArmPanic

\* the Element | ElementArray arm
OnElement(state, ev) ==
    LET again == IF state.tag = "ElementArray" THEN << StElementArray >> ELSE <<>>
    IN  CASE ev.t = "Null" -> Arm(again, <<>>, <<>>)
          [] ev.t \in {"String", "Number", "Boolean"} ->
                Arm(again, expand_value(ScalarValue(ev)), <<>>)
          [] ev.t = "StartArray" -> Arm(again \o << StElementArray >>, <<>>, <<>>)
          [] ev.t = "EndArray" -> Arm(<<>>, <<>>, <<>>)
          [] ev.t = "StartObject" ->
                ArmCx(again \o << StObjectStart(<<>>, None) >>, <<>>, <<>>, "same")
          [] OTHER -> ArmPanic

\* the ObjectStart arm, ObjectKey whose expansion is a keyword
OnObjectStartKeyword(state, keyword) ==
    LET types == state.types
        id == state.id
    IN  CASE keyword = KwContext ->
                Arm(<< StToNode(<<>>, None, "Context") >>, <<>>, <<>>)
          [] keyword = KwType ->
                Arm(<< StObjectType(types, id) >>, <<>>, <<>>)
          [] keyword = KwValue ->
                Arm(<< StValueValue(None, None) >>, <<>>,
                    IF Len(types) > 1
                    THEN << MsgAndCode("Only a single @type is allowed when @value is present",
                                       "invalid typed value") >>
                    ELSE <<>>)
          [] keyword = KwLanguage ->
                Arm(<< StValueLanguage(None, None) >>, <<>>,
                    IF Len(types) > 1
                    THEN << MsgAndCode("Only a single @language is allowed",
                                       "colliding keywords") >>
                    ELSE <<>>)
          [] keyword = KwId ->
                Arm(<< StObjectId(types, id, TRUE) >>, <<>>,
                    IF IsSome(id)
                    THEN << MsgAndCode("Only a single @id is allowed",
                                       "colliding keywords") >>
                    ELSE <<>>)
          [] OTHER ->
                Arm(<< StObjectStart(types, id), StSkip >>, <<>>,
                    << MsgArg("Unsupported JSON-LD keyword: @{keyword}", keyword) >>)

\* the ObjectStart arm
OnObjectStart(state, ev, ctx, lenient) ==
    LET types == state.types
        id == state.id
        x == expand_iri(ctx, lenient, ev.s, FALSE, TRUE)
    IN  CASE ev.t = "ObjectKey" /\ x.k = "Id" ->
                Arm(<< StObject(TRUE), StElement >>,
                    << EvStartObject(types), EvStartProperty(x.s) >>, <<>>)
          [] ev.t = "ObjectKey" /\ x.k = "Keyword" -> OnObjectStartKeyword(state, x.s)
          [] ev.t = "ObjectKey" /\ x.k = "None" ->
                Arm(<< StObjectStart(types, id), StSkip >>, <<>>, <<>>)
          [] ev.t = "EndObject" ->
                ArmCx(<<>>,
                      << EvStartObject(types) >>
                         \o (IF IsSome(id) THEN << EvId(Unwrap(id)) >> ELSE <<>>)
                         \o << EvEndObject >>,
                      <<>>, "pop")
          [] OTHER -> ArmPanic

\* OnObjectType with a slip: after a scalar that is no string the next token is skipped
OnObjectTypeSkipping(state, ev, ctx, lenient) ==
    LET types == state.types
        id == state.id
        is_array == state.tag = "ObjectTypeArray"
        back(t) == IF is_array THEN StObjectTypeArray(t, id) ELSE StObjectStart(t, id)
        x == expand_iri(ctx, lenient, ev.s, FALSE, TRUE)
        not_string == MsgAndCode("@type value must be a string", "invalid @type value")
    IN  CASE ev.t \in {"Null", "Number", "Boolean"} ->
                Arm(<< back(types), StSkip >>, <<>>, << not_string >>)
          [] ev.t = "String" /\ x.k = "Id" ->
                Arm(<< back(Append(types, x.s)) >>, <<>>, <<>>)
          [] ev.t = "String" /\ x.k = "Keyword" ->
                Arm(<< back(types) >>, <<>>,
                    << MsgArg("@{keyword} is not a valid value for @type", x.s) >>)
          [] ev.t = "String" /\ x.k = "None" ->
                Arm(<< back(types) >>, <<>>, <<>>)
          [] ev.t = "StartArray" /\ is_array ->
                Arm(<< StObjectTypeArray(types, id), StSkipArray >>, <<>>,
                    << MsgAndCode("@type cannot contain a nested array",
                                  "invalid @type value") >>)
          [] ev.t = "StartArray" /\ ~is_array ->
                Arm(<< StObjectTypeArray(types, id) >>, <<>>, <<>>)
          [] ev.t = "EndArray" ->
                Arm(<< StObjectStart(types, id) >>, <<>>, <<>>)
          [] ev.t = "StartObject" ->
                Arm(<< back(types), StSkip >>, <<>>, << not_string >>)
          [] OTHER -> ArmPanic

\* the ObjectType | ObjectTypeArray arm
OnObjectType(state, ev, ctx, lenient) ==
    LET types == state.types
        id == state.id
        is_array == state.tag = "ObjectTypeArray"
        back(t) == IF is_array THEN StObjectTypeArray(t, id) ELSE StObjectStart(t, id)
        x == expand_iri(ctx, lenient, ev.s, FALSE, TRUE)
        not_string == MsgAndCode("@type value must be a string", "invalid @type value")
    IN  CASE ev.t \in {"Null", "Number", "Boolean"} ->
                Arm(<< back(types) >>, <<>>, << not_string >>)
          [] ev.t = "String" /\ x.k = "Id" ->
                Arm(<< back(Append(types, x.s)) >>, <<>>, <<>>)
          [] ev.t = "String" /\ x.k = "Keyword" ->
                Arm(<< back(types) >>, <<>>,
                    << MsgArg("@{keyword} is not a valid value for @type", x.s) >>)
          [] ev.t = "String" /\ x.k = "None" ->
                Arm(<< back(types) >>, <<>>, <<>>)
          [] ev.t = "StartArray" /\ is_array ->
                Arm(<< StObjectTypeArray(types, id), StSkipArray >>, <<>>,
                    << MsgAndCode("@type cannot contain a nested array",
                                  "invalid @type value") >>)
          [] ev.t = "StartArray" /\ ~is_array ->
                Arm(<< StObjectTypeArray(types, id) >>, <<>>, <<>>)
          [] ev.t = "EndArray" ->
                Arm(<< StObjectStart(types, id) >>, <<>>, <<>>)
          [] ev.t = "StartObject" ->
                Arm(<< back(types), StSkip >>, <<>>, << not_string >>)
          [] OTHER -> ArmPanic

\* the ObjectId arm
OnObjectId(state, ev, ctx, lenient) ==
    LET types == state.types
        from_start == state.from_start
        x == expand_iri(ctx, lenient, ev.s, TRUE, FALSE)
        id == IF ev.t = "String" /\ x.k = "Id" THEN Some(x.s) ELSE state.id
        back == IF from_start THEN StObjectStart(types, state.id) ELSE StObject(FALSE)
        not_string == MsgAndCode("@id value must be a string",
                                 "invalid language-tagged string")
    IN  CASE ev.t = "String" ->
                Arm(<< IF from_start THEN StObjectStart(types, id) ELSE StObject(FALSE) >>,
                    IF ~from_start /\ IsSome(id) THEN << EvId(Unwrap(id)) >> ELSE <<>>,
                    IF x.k = "Keyword"
                    THEN << Msg("@id value must be an IRI or a blank node") >>
                    ELSE <<>>)
          [] ev.t \in {"Null", "Number", "Boolean"} ->
                Arm(<< back >>, <<>>, << not_string >>)
          [] ev.t = "StartArray" ->
                Arm(<< back, StSkipArray >>, <<>>, << not_string >>)
          [] ev.t = "StartObject" ->
                Arm(<< back, StSkip >>, <<>>, << not_string >>)
          [] OTHER -> ArmPanic

\* the Object arm: EndProperty first when a property is open
OnObject(state, ev, ctx, lenient) ==
    LET close == IF state.in_property THEN << EvEndProperty >> ELSE <<>>
        x == expand_iri(ctx, lenient, ev.s, FALSE, TRUE)
    IN  CASE ev.t = "EndObject" ->
                ArmCx(<<>>, close \o << EvEndObject >>, <<>>, "pop")
          [] ev.t = "ObjectKey" /\ x.k = "Id" ->
                Arm(<< StObject(TRUE), StElement >>,
                    close \o << EvStartProperty(x.s) >>, <<>>)
          [] ev.t = "ObjectKey" /\ x.k = "Keyword" /\ x.s = KwId ->
                Arm(<< StObjectId(<<>>, None, FALSE) >>, close, <<>>)
          [] ev.t = "ObjectKey" /\ x.k = "Keyword" ->
                Arm(<< StObject(FALSE), StSkip >>, close,
                    << MsgArg("Unsupported keyword: {keyword}", x.s) >>)
          [] ev.t = "ObjectKey" /\ x.k = "None" ->
                Arm(<< StObject(FALSE), StSkip >>, close, <<>>)
          [] OTHER -> ArmPanic

\* the state pushed when a value object reads a key whose expansion is none
\* (expansion.rs:555-557)
ValueKeyNone(state) == << StObject(FALSE), StSkip >>

\* OnValueKeyword with a slip: a second @value replaces the first
OnValueKeywordOverwriting(state, keyword) ==
    LET type == state.type
        value == state.value
        language == state.language
        stay == << StValue(type, value, language), StSkip >>
    IN  CASE keyword = KwValue -> Arm(<< StValueValue(type, language) >>, <<>>, <<>>)
          [] keyword = KwLanguage /\ IsSome(language) ->
                Arm(stay, <<>>, << MsgAndCode("@language cannot be set multiple times",
                                              "colliding keywords") >>)
          [] keyword = KwLanguage -> Arm(<< StValueLanguage(type, value) >>, <<>>, <<>>)
          [] keyword = KwType /\ IsSome(type) ->
                Arm(stay, <<>>, << MsgAndCode("@type cannot be set multiple times",
                                              "colliding keywords") >>)
          [] keyword = KwType -> Arm(<< StValueType(value, language) >>, <<>>, <<>>)
          [] OTHER ->
                Arm(stay, <<>>,
                    << MsgArg("Unsupported JSON-Ld keyword inside of a @value: @{keyword}",
                              keyword) >>)

\* the Value arm, ObjectKey whose expansion is a keyword
OnValueKeyword(state, keyword) ==
    LET type == state.type
        value == state.value
        language == state.language
        stay == << StValue(type, value, language), StSkip >>
    IN  CASE keyword = KwValue /\ IsSome(value) ->
                Arm(stay, <<>>, << MsgAndCode("@value cannot be set multiple times",
                                              "invalid value object") >>)
          [] keyword = KwValue -> Arm(<< StValueValue(type, language) >>, <<>>, <<>>)
          [] keyword = KwLanguage /\ IsSome(language) ->
                Arm(stay, <<>>, << MsgAndCode("@language cannot be set multiple times",
                                              "colliding keywords") >>)
          [] keyword = KwLanguage -> Arm(<< StValueLanguage(type, value) >>, <<>>, <<>>)
          [] keyword = KwType /\ IsSome(type) ->
                Arm(stay, <<>>, << MsgAndCode("@type cannot be set multiple times",
                                              "colliding keywords") >>)
          [] keyword = KwType -> Arm(<< StValueType(value, language) >>, <<>>, <<>>)
          [] OTHER ->
                Arm(stay, <<>>,
                    << MsgArg("Unsupported JSON-Ld keyword inside of a @value: @{keyword}",
                              keyword) >>)

\* OnValueEnd with a slip: the type read from @type is not passed on
OnValueEndUntyped(state) ==
    LET type == state.type
        value == state.value
        language == state.language
        e1 == IF IsSome(language) /\ IsSome(type)
              THEN << MsgAndCode("@type and @language cannot be used together",
                                 "invalid value object") >>
              ELSE <<>>
        e2 == IF IsSome(language) /\ Unwrap(value).k # "String"
              THEN << MsgAndCode("@language can be used only on a string @value",
                                 "invalid language-tagged value") >>
              ELSE <<>>
    IN  IF IsSome(value)
        THEN ArmCx(<<>>, << EvValue(Unwrap(value), None, language) >>, e1 \o e2, "pop")
        ELSE ArmCx(<<>>, <<>>, <<>>, "pop")

\* the Value arm, EndObject
OnValueEnd(state) ==
    LET type == state.type
        value == state.value
        language == state.language
        e1 == IF IsSome(language) /\ IsSome(type)
              THEN << MsgAndCode("@type and @language cannot be used together",
                                 "invalid value object") >>
              ELSE <<>>
        e2 == IF IsSome(language) /\ Unwrap(value).k # "String"
              THEN << MsgAndCode("@language can be used only on a string @value",
                                 "invalid language-tagged value") >>
              ELSE <<>>
    IN  IF IsSome(value)
        THEN ArmCx(<<>>, << EvValue(Unwrap(value), type, language) >>, e1 \o e2, "pop")
        ELSE ArmCx(<<>>, <<>>, <<>>, "pop")

\* the Value arm
OnValue(state, ev, ctx, lenient) ==
    LET x == expand_iri(ctx, lenient, ev.s, FALSE, TRUE)
    IN  CASE ev.t = "ObjectKey" /\ x.k = "Id" ->
                Arm(<< StValue(state.type, state.value, state.language), StSkip >>, <<>>,
                    << MsgAndCodeArg("Objects with @value cannot contain properties, {id} found",
                                     "invalid value object", x.s) >>)
          [] ev.t = "ObjectKey" /\ x.k = "Keyword" -> OnValueKeyword(state, x.s)
          [] ev.t = "ObjectKey" /\ x.k = "None" -> Arm(ValueKeyNone(state), <<>>, <<>>)
          [] ev.t = "EndObject" -> OnValueEnd(state)
          [] OTHER -> ArmPanic

\* the ValueValue arm
OnValueValue(state, ev) ==
    LET type == state.type
        language == state.language
    IN  CASE ev.t = "Null" -> Arm(<< StValue(type, None, language) >>, <<>>, <<>>)
          [] ev.t \in {"Number", "Boolean", "String"} ->
                Arm(<< StValue(type, Some(ScalarValue(ev)), language) >>, <<>>, <<>>)
          [] ev.t = "StartArray" ->
                Arm(<< StValue(type, None, language), StSkipArray >>, <<>>,
                    << MsgAndCode("@type cannot contain an array",
                                  "invalid value object value") >>)
          [] ev.t = "StartObject" ->
                Arm(<< StValue(type, None, language), StSkip >>, <<>>,
                    << MsgAndCode("@type cannot contain an object",
                                  "invalid value object value") >>)
          [] OTHER -> ArmPanic

\* the ValueLanguage arm
OnValueLanguage(state, ev) ==
    LET type == state.type
        value == state.value
        not_string == MsgAndCode("@language value must be a string",
                                 "invalid language-tagged string")
    IN  CASE ev.t = "String" -> Arm(<< StValue(type, value, Some(ev.s)) >>, <<>>, <<>>)
          [] ev.t \in {"Null", "Number", "Boolean"} ->
                Arm(<< StValue(type, value, None) >>, <<>>, << not_string >>)
          [] ev.t = "StartArray" ->
                Arm(<< StValue(type, value, None), StSkipArray >>, <<>>, << not_string >>)
          [] ev.t = "StartObject" ->
                Arm(<< StValue(type, value, None), StSkip >>, <<>>, << not_string >>)
          [] OTHER -> ArmPanic

\* the ValueType arm
OnValueType(state, ev) ==
    LET value == state.value
        language == state.language
        not_string == MsgAndCode("@language value must be a string",
                                 "invalid language-tagged string")
    IN  CASE ev.t = "String" -> Arm(<< StValue(Some(ev.s), value, language) >>, <<>>, <<>>)
          [] ev.t \in {"Null", "Number", "Boolean"} ->
                Arm(<< StValue(None, value, language) >>, <<>>,
                    << MsgAndCode("@type value must be a string when @value is present",
                                  "invalid typed value") >>)
          [] ev.t = "StartArray" ->
                Arm(<< StValue(None, value, language), StSkipArray >>, <<>>, << not_string >>)
          [] ev.t = "StartObject" ->
                Arm(<< StValue(None, value, language), StSkip >>, <<>>, << not_string >>)
          [] OTHER -> ArmPanic

\* the Skip and SkipArray arm with a slip: a scalar inside an array ends the
\* skipping of the array
OnSkipScalarEnds(state, ev) ==
    LET again == IF state.tag = "SkipArray" THEN << StSkipArray >> ELSE <<>>
    IN  CASE ev.t \in {"String", "Number", "Boolean", "Null"} -> Arm(<<>>, <<>>, <<>>)
          [] ev.t \in {"EndArray", "EndObject"} -> Arm(<<>>, <<>>, <<>>)
          [] ev.t = "StartArray" -> Arm(again \o << StSkipArray >>, <<>>, <<>>)
          [] ev.t = "StartObject" -> Arm(again \o << StSkip >>, <<>>, <<>>)
          [] ev.t = "ObjectKey" -> Arm(<< StSkip, StSkip >>, <<>>, <<>>)
          [] OTHER -> ArmPanic

\* the Skip | SkipArray arm
OnSkip(state, ev) ==
    LET again == IF state.tag = "SkipArray" THEN << StSkipArray >> ELSE <<>>
    IN  CASE ev.t \in {"String", "Number", "Boolean", "Null"} -> Arm(again, <<>>, <<>>)
          [] ev.t \in {"EndArray", "EndObject"} -> Arm(<<>>, <<>>, <<>>)
          [] ev.t = "StartArray" -> Arm(again \o << StSkipArray >>, <<>>, <<>>)
          [] ev.t = "StartObject" -> Arm(again \o << StSkip >>, <<>>, <<>>)
          [] ev.t = "ObjectKey" -> Arm(<< StSkip, StSkip >>, <<>>, <<>>)
          [] OTHER -> ArmPanic

\* after_to_node_event: new_value goes into the node on top of the buffer's
\* stack, or to after_buffering when the stack is empty
after_to_node_event(stack, current_key, end_state, new_value) ==
    LET n == Len(stack)
        top == stack[n]
    IN  IF n = 0 THEN ArmBuffered(new_value)
        ELSE IF top.k = "Object" /\ current_key = None THEN ArmPanic
        ELSE IF top.k = "Object"
        THEN Arm(<< StToNode([stack EXCEPT ![n] =
                                 NodeObject(MapInsert(top.entries, Unwrap(current_key),
                                                      new_value))],
                             None, end_state) >>, <<>>, <<>>)
        ELSE IF top.k = "Array"
        THEN Arm(<< StToNode([stack EXCEPT ![n] = NodeArray(Append(top.items, new_value))],
                             current_key, end_state) >>, <<>>, <<>>)
        ELSE ArmPanic

\* the node a scalar token carries
ScalarNode(ev) ==
    IF ev.t = "String" THEN NodeString(ev.s)
    ELSE IF ev.t = "Number" THEN NodeNumber(ev.s)
    ELSE IF ev.t = "Boolean" THEN NodeBoolean(ev.b)
    ELSE NodeNull

\* the ToNode arm with a slip: the state of the enclosing array or object
\* stays on the state stack below the new one
OnToNodeStacking(state, ev) ==
    LET stack == state.stack
        current_key == state.current_key
        end_state == state.end_state
        n == Len(stack)
    IN  CASE ev.t \in {"String", "Number", "Boolean", "Null"} ->
                after_to_node_event(stack, current_key, end_state, ScalarNode(ev))
          [] ev.t \in {"EndArray", "EndObject"} /\ n = 0 -> ArmPanic
          [] ev.t \in {"EndArray", "EndObject"} ->
                after_to_node_event(SubSeq(stack, 1, n - 1), current_key, end_state,
                                    stack[n])
          [] ev.t = "StartArray" ->
                Arm(<< state,
                       StToNode(Append(stack, NodeArray(<<>>)), current_key, end_state) >>,
                    <<>>, <<>>)
          [] ev.t = "StartObject" ->
                Arm(<< state,
                       StToNode(Append(stack, NodeObject({})), current_key, end_state) >>,
                    <<>>, <<>>)
          [] ev.t = "ObjectKey" ->
                Arm(<< StToNode(stack, Some(ev.s), end_state) >>, <<>>, <<>>)
          [] OTHER -> ArmPanic

\* the ToNode arm
OnToNode(state, ev) ==
    LET stack == state.stack
        current_key == state.current_key
        end_state == state.end_state
        n == Len(stack)
    IN  CASE ev.t \in {"String", "Number", "Boolean", "Null"} ->
                after_to_node_event(stack, current_key, end_state, ScalarNode(ev))
          [] ev.t \in {"EndArray", "EndObject"} /\ n = 0 -> ArmPanic
          [] ev.t \in {"EndArray", "EndObject"} ->
                after_to_node_event(SubSeq(stack, 1, n - 1), current_key, end_state,
                                    stack[n])
          [] ev.t = "StartArray" ->
                Arm(<< StToNode(Append(stack, NodeArray(<<>>)), current_key, end_state) >>,
                    <<>>, <<>>)
          [] ev.t = "StartObject" ->
                Arm(<< StToNode(Append(stack, NodeObject({})), current_key, end_state) >>,
                    <<>>, <<>>)
          [] ev.t = "ObjectKey" ->
                Arm(<< StToNode(stack, Some(ev.s), end_state) >>, <<>>, <<>>)
          [] OTHER -> ArmPanic

\* `match state { ... }` of convert_event: the arm of the popped state
MatchState(state, ev, ctx, lenient) ==
    CASE state.tag \in {"Element", "ElementArray"} -> OnElement(state, ev)
      [] state.tag = "ObjectStart" -> OnObjectStart(state, ev, ctx, lenient)
      [] state.tag \in {"ObjectType", "ObjectTypeArray"} ->
            OnObjectType(state, ev, ctx, lenient)
      [] state.tag = "ObjectId" -> OnObjectId(state, ev, ctx, lenient)
      [] state.tag = "Object" -> OnObject(state, ev, ctx, lenient)
      [] state.tag = "Value" -> OnValue(state, ev, ctx, lenient)
      [] state.tag = "ValueValue" -> OnValueValue(state, ev)
      [] state.tag = "ValueLanguage" -> OnValueLanguage(state, ev)
      [] state.tag = "ValueType" -> OnValueType(state, ev)
      [] state.tag \in {"Skip", "SkipArray"} -> OnSkip(state, ev)
      [] state.tag = "ToNode" -> OnToNode(state, ev)

(***************************************************************************)
(* The converter (JsonLdExpansionConverter) and its caller's buffers.      *)
(***************************************************************************)
VARIABLES
    state,      \* self.state, a stack (run-length encoded)
    context,    \* self.context: entries [ctx, refcount], the top last
    is_end,     \* self.is_end
    lenient,    \* self.lenient
    results,    \* the caller's event buffer
    errors,     \* the caller's diagnostics buffer
    aborted,    \* a panic has ended the process
    open,       \* the tokenizer: the stack (run-length encoded) of the open
                \* arrays ("A") and objects ("K": a key or the end comes
                \* next, "V": a member's value comes next)
    fed,        \* the tokenizer: tokens delivered so far, counted up to MaxTokens
    eof,        \* the tokenizer: Eof has been delivered
    call        \* a direct call of a function of the library: its arguments
                \* and, once it has returned or panicked, its outcome

vars ==
    << state, context, is_end, lenient, results, errors, aborted, open, fed, eof, call >>

\* A refcount is a usize.  The model writes the value r mod 2^64 as a
\* representative near 0: -1 stands for usize::MAX.  `x > 0` on the usize is
\* `x # 0` on the representative; `x - 1` overflows when x = 0 and `x + 1`
\* when x = -1.  An overflow panics in a build with overflow checks and
\* wraps in a build without: both outcomes are in the sets below.
Entry(ctx, refcount) == [ctx |-> ctx, refcount |-> refcount]

CxOk(cx) == [context |-> cx, abort |-> FALSE]

CxPanic == [context |-> <<>>, abort |-> TRUE]

\* push_same_context
push_same_context(cx) ==
    LET n == Len(cx)
    IN  IF n = 0 THEN { CxPanic }
        ELSE { CxOk([cx EXCEPT ![n].refcount = @ + 1]) }
             \cup (IF cx[n].refcount = -1 THEN { CxPanic } ELSE {})

\* pop_context with a slip: the entry is kept when its refcount reaches 0
pop_context_keeping(cx) ==
    LET n == Len(cx)
    IN  IF n = 0 THEN { CxPanic }
        ELSE { CxOk([cx EXCEPT ![n].refcount = @ - 1]) }

\* pop_context
pop_context(cx) ==
    LET n == Len(cx)
        r == cx[n].refcount - 1
    IN  IF n = 0 THEN { CxPanic }
        ELSE { CxOk(IF r # 0 THEN [cx EXCEPT ![n].refcount = r]
                    ELSE SubSeq(cx, 1, n - 1)) }
             \cup (IF cx[n].refcount = 0 THEN { CxPanic } ELSE {})

\* ReplaceTop with a slip: the top entry's refcount is left as it is
ReplaceTopNoDecrement(cx, new_ctx) ==
    IF Len(cx) = 0 THEN { CxPanic } ELSE { CxOk(Append(cx, Entry(new_ctx, 1))) }

\* after_buffering, the context stack once process_context has returned
\* new_ctx: the top entry's refcount is decremented, the new entry pushed
ReplaceTop(cx, new_ctx) ==
    LET n == Len(cx)
    IN  IF n = 0 THEN { CxPanic }
        ELSE { CxOk(Append([cx EXCEPT ![n].refcount = @ - 1], Entry(new_ctx, 1))) }
             \cup (IF cx[n].refcount = 0 THEN { CxPanic } ELSE {})

\* what a call can end as: the states pushed, the events and diagnostics
\* appended and the new context stack, or a panic
Done(push, res, err, cx) ==
    [push |-> push, res |-> res, err |-> err, context |-> cx, abort |-> FALSE]

Panicked == [push |-> <<>>, res |-> <<>>, err |-> <<>>, context |-> <<>>, abort |-> TRUE]

\* after_buffering with a slip: the local context is processed against the
\* enclosing active context
after_buffering_inheriting(cx, node, len) ==
    IF cx = <<>> THEN { Panicked }
    ELSE UNION { IF pc.abort THEN { Panicked }
                 ELSE { IF c.abort THEN Panicked
                        ELSE Done(<< StObjectStart(<<>>, None) >>, <<>>, pc.errs, c.context)
                        : c \in ReplaceTop(cx, pc.ctx) }
                 : pc \in process_context(cx[Len(cx)].ctx, node, None, <<>>, FALSE, TRUE,
                                          "JsonLd1_0", len) }

\* after_buffering(node, Context)
after_buffering(cx, node, len) ==
    UNION { IF pc.abort THEN { Panicked }
            ELSE { IF c.abort THEN Panicked
                   ELSE Done(<< StObjectStart(<<>>, None) >>, <<>>, pc.errs, c.context)
                   : c \in ReplaceTop(cx, pc.ctx) }
            : pc \in process_context(DefaultContext, node, None, <<>>, FALSE, TRUE,
                                     "JsonLd1_0", len) }

\* Finish with a slip: an arm that raises a diagnostic may lose its events
FinishInterrupted(arm, cx, len) ==
    IF arm.abort THEN { Panicked }
    ELSE IF arm.cx = "buffered" THEN after_buffering(cx, arm.node, len)
    ELSE { IF c.abort THEN Panicked ELSE Done(arm.push, r, arm.err, c.context)
           : c \in (CASE arm.cx = "same" -> push_same_context(cx)
                      [] arm.cx = "pop" -> pop_context(cx)
                      [] OTHER -> { CxOk(cx) }),
             r \in (IF arm.err = <<>> THEN { arm.res } ELSE { arm.res, <<>> }) }

\* the calls an arm makes on the context stack
Finish(arm, cx, len) ==
    IF arm.abort THEN { Panicked }
    ELSE IF arm.cx = "buffered" THEN after_buffering(cx, arm.node, len)
    ELSE { IF c.abort THEN Panicked ELSE Done(arm.push, arm.res, arm.err, c.context)
           : c \in (CASE arm.cx = "same" -> push_same_context(cx)
                      [] arm.cx = "pop" -> pop_context(cx)
                      [] OTHER -> { CxOk(cx) }) }

\* whether the arm of (state, ev) reaches self.context() inside expand_iri
ReadsContext(st, ev) ==
    /\ \/ st.tag \in {"ObjectStart", "Object", "Value"} /\ ev.t = "ObjectKey"
       \/ st.tag \in {"ObjectType", "ObjectTypeArray", "ObjectId"} /\ ev.t = "String"
    /\ ~(StartsWith(ev.s, <<"@">>) /\ AtBranch(Tail(ev.s)) # "fall")

\* convert_event past its two early returns: the popped state's arm
Transition(st, ev, cx, len) ==
    IF cx = <<>> /\ ReadsContext(st, ev) THEN { Panicked }
    ELSE Finish(MatchState(st, ev, IF cx = <<>> THEN DefaultContext ELSE cx[Len(cx)].ctx,
                           len),
                cx, len)

\* TooLarge with a slip: the guard lets one more state through
TooLargeOffByOne(st) == StackLen(st) > MaxStateStack + 1

\* expansion.rs:116  the stack-depth guard
TooLarge(st) == StackLen(st) > MaxStateStack

\* convert_event(event, results, errors)
convert_event(ev) ==
    /\ ~aborted
    /\ UNCHANGED lenient
    /\ IF TooLarge(state)
       THEN /\ errors' = Append(errors, Msg("Too large state stack"))
            /\ UNCHANGED << state, context, is_end, results, aborted >>
       ELSE IF ev.t = "Eof"
       THEN /\ is_end' = TRUE
            /\ UNCHANGED << state, context, results, errors, aborted >>
       ELSE IF state = <<>>
       THEN /\ aborted' = TRUE
            /\ UNCHANGED << state, context, is_end, results, errors >>
       ELSE \E o \in Transition(StackTop(state), ev, context, lenient) :
              IF o.abort
              THEN /\ aborted' = TRUE
                   /\ UNCHANGED << state, context, is_end, results, errors >>
              ELSE /\ state' = StackPushAll(StackPop(state), o.push)
                   /\ context' = o.context
                   /\ results' = results \o o.res
                   /\ errors' = errors \o o.err
                   /\ UNCHANGED << is_end, aborted >>

(***************************************************************************)
(* The tokenizer: it delivers the tokens of one JSON value, well nested,   *)
(* then Eof.                                                               *)
(***************************************************************************)
\* a document's base IRI
BaseIri == <<"h", ":", "/", "/", "b", "/", "d">>

\* the strings, numbers and keys of the documents of Spec
DocStrings == { <<"s">> }

DocNumbers == { <<"1">> }

DocKeys ==
    { At(KwContext), At(KwId), At(KwType), At(KwValue), At(KwLanguage), At(KwGraph),
      At(KwVocab), <<"@", "f", "o", "o">>, <<"p">> }

DocTokens ==
    { TokNull, TokStartArray, TokEndArray, TokStartObject, TokEndObject }
    \cup { TokString(s) : s \in DocStrings }
    \cup { TokNumber(s) : s \in DocNumbers }
    \cup { TokObjectKey(s) : s \in DocKeys }

StartsValue(tok) ==
    tok.t \in {"Null", "Boolean", "Number", "String", "StartArray", "StartObject"}

\* the top-level value has been delivered whole
DocComplete == fed > 0 /\ open = <<>>

\* the token may come next in a well-formed stream
WellFormedNext(tok) ==
    IF StartsValue(tok)
    THEN (open = <<>> /\ fed = 0) \/ (open # <<>> /\ StackTop(open) \in {"A", "V"})
    ELSE IF tok.t = "EndArray" THEN open # <<>> /\ StackTop(open) = "A"
    ELSE IF tok.t \in {"EndObject", "ObjectKey"} THEN open # <<>> /\ StackTop(open) = "K"
    ELSE DocComplete /\ ~eof

\* the open arrays and objects after the token
OpenAfter(tok) ==
    LET valued == IF open # <<>> /\ StackTop(open) = "V"
                  THEN StackPush(StackPop(open), "K") ELSE open
    IN  CASE tok.t = "StartArray" -> StackPush(valued, "A")
          [] tok.t = "StartObject" -> StackPush(valued, "K")
          [] tok.t \in {"EndArray", "EndObject"} -> StackPop(open)
          [] tok.t = "ObjectKey" -> StackPush(StackPop(open), "V")
          [] OTHER -> valued

Min(a, b) == IF a < b THEN a ELSE b

\* JsonLdExpansionConverter::new(base_url, lenient)
New(base_url, len) ==
    /\ state = StackPush(EmptyStack, StElement)
    /\ context = << Entry(NewEmpty(base_url), 0) >>
    /\ is_end = FALSE
    /\ lenient = len

\* no function is called directly
NoCall == [fn |-> "none"]

Init ==
    /\ \E base_url \in {None, Some(BaseIri)}, len \in BOOLEAN : New(base_url, len)
    /\ results = <<>>
    /\ errors = <<>>
    /\ aborted = FALSE
    /\ open = <<>>
    /\ fed = 0
    /\ eof = FALSE
    /\ call = NoCall

\* the tokenizer's own step for a token of the document; a panic of
\* convert_event ends the process, the tokenizer with it
Delivered(tok) ==
    /\ open' = IF aborted' THEN open ELSE OpenAfter(tok)
    /\ fed' = IF aborted' THEN fed ELSE Min(fed + 1, MaxTokens)
    /\ UNCHANGED << eof, call >>

\* the tokenizer delivers the next token of the document
Feed(tok) ==
    /\ ~eof
    /\ fed < MaxTokens
    /\ WellFormedNext(tok)
    /\ StackLen(OpenAfter(tok)) <= MaxDepth
    /\ convert_event(tok)
    /\ Delivered(tok)

\* the tokenizer delivers Eof after the document
FeedEof ==
    /\ WellFormedNext(TokEof)
    /\ convert_event(TokEof)
    /\ eof' = TRUE
    /\ UNCHANGED << open, fed, call >>

Next ==
    \/ \E tok \in DocTokens : Feed(tok)
    \/ FeedEof

Spec == Init /\ [][Next]_vars

(***************************************************************************)
(* Deep nesting: the tokenizer delivers arrays nested without bound, and   *)
(* Eof at any point (a truncated input), until MaxDropped tokens have      *)
(* been delivered to a converter whose stack is past the cap.              *)
(***************************************************************************)
DeepTokens == { TokStartArray, TokEndArray, TokNull }

FeedDeep(tok) ==
    /\ Len(errors) < MaxDropped
    /\ WellFormedNext(tok)
    /\ convert_event(tok)
    /\ Delivered(tok)

FeedEofAnywhere ==
    /\ Len(errors) < MaxDropped
    /\ convert_event(TokEof)
    /\ eof' = TRUE
    /\ UNCHANGED << open, fed, call >>

NextDepth ==
    \/ \E tok \in DeepTokens : FeedDeep(tok)
    \/ FeedEofAnywhere

SpecDepth == Init /\ [][NextDepth]_vars

(***************************************************************************)
(* Direct calls of process_context: the arguments are drawn from the       *)
(* sets below, the call returns one of the outcomes of process_context.    *)
(***************************************************************************)
VocabIri == <<"h", ":", "v", "/">>

TermIri == <<"h", ":", "t">>

\* a string Iri::parse and Iri::resolve reject
BadIri == <<"<", "s">>

\* the active contexts of the calls
CallContexts ==
    { DefaultContext,
      NewEmpty(Some(BaseIri)),
      [ DefaultContext EXCEPT
          !.vocabulary_mapping = Some(VocabIri),
          !.default_language = Some(<<"e", "n">>),
          !.term_definitions =
              { [name |-> <<"p">>, iri_mapping |-> Some(TermIri), prefix |-> TRUE,
                 protected |-> TRUE],
                [name |-> <<"q">>, iri_mapping |-> None, prefix |-> FALSE,
                 protected |-> FALSE] } ],
      [ NewEmpty(Some(BaseIri)) EXCEPT
          !.vocabulary_mapping = Some(VocabIri),
          !.previous_context = Some(DefaultContext) ] }

\* the scalar nodes of the calls
CallScalars ==
    { NodeNull, NodeBoolean(TRUE), NodeBoolean(FALSE),
      NodeNumber(<<"1", ".", "1">>), NodeNumber(<<"1", ".", "0">>),
      NodeString(VocabIri), NodeString(<<"_", ":", "b">>), NodeString(<<"r">>),
      NodeString(BadIri) }

\* the keys of the context objects of the calls
CallKeys ==
    { At(KwVersion), At(KwImport), At(KwBase), At(KwVocab), At(KwLanguage),
      At(KwDirection), At(KwPropagate), At(KwProtected), <<"p">> }

CallEntries == { [key |-> k, v |-> v] : k \in CallKeys, v \in CallScalars }

\* the context objects of the calls: no entry, one entry, or an entry and "@vocab"
CallObjects ==
    { NodeObject({}) }
    \cup { NodeObject({e}) : e \in CallEntries }
    \cup { NodeObject({e, [key |-> At(KwVocab), v |-> NodeString(VocabIri)]})
           : e \in { x \in CallEntries : x.key # At(KwVocab) } }

\* the local contexts of the calls
CallNodes ==
    CallScalars \cup CallObjects
    \cup { NodeArray(<<>>), NodeArray(<< NodeArray(<<>>) >>) }
    \cup { NodeArray(<< a, b >>) :
             a \in { NodeNull, NodeNumber(<<"1", ".", "1">>),
                     NodeObject({[key |-> At(KwVocab), v |-> NodeString(VocabIri)]}) },
             b \in { NodeNull, NodeString(<<"r">>),
                     NodeObject({[key |-> At(KwBase), v |-> NodeNull]}) } }

ProcessContextCalls ==
    [ fn : {"process_context"},
      active_context : CallContexts,
      local_context : CallNodes,
      base_url : {None},
      remote_contexts : { <<>>, << <<"u">> >> },
      override_protected : BOOLEAN,
      propagate : BOOLEAN,
      processing_mode : {"JsonLd1_0", "JsonLd1_1"},
      lenient : BOOLEAN,
      out : {None} ]

InitContext ==
    /\ New(None, FALSE)
    /\ results = <<>>
    /\ errors = <<>>
    /\ aborted = FALSE
    /\ open = <<>>
    /\ fed = 0
    /\ eof = FALSE
    /\ call \in ProcessContextCalls

\* the call returns (out.abort = FALSE) or panics (out.abort = TRUE)
CallProcessContext ==
    /\ call.fn = "process_context"
    /\ call.out = None
    /\ \E o \in process_context(call.active_context, call.local_context, call.base_url,
                                call.remote_contexts, call.override_protected,
                                call.propagate, call.processing_mode, call.lenient) :
          call' = [call EXCEPT !.out = Some(o)]
    /\ UNCHANGED << state, context, is_end, lenient, results, errors, aborted, open,
                    fed, eof >>

NextContext == CallProcessContext

SpecContext == InitContext /\ [][NextContext]_vars

(***************************************************************************)
(* The emitted event stream.                                               *)
(***************************************************************************)
\* the number of events of kind e among the first i events
CountUpTo(evs, e, i) == Cardinality({ j \in 1..i : evs[j].e = e })

\* The open scopes after the events evs[i..], read from the scopes in stack:
\* "O" an object opened by StartObject, "P" a property opened by
\* StartProperty.  << "bad" >> when a StartProperty comes with no object on
\* top, an EndProperty with no property on top, or an EndObject while a
\* property is on top.  An EndObject with nothing open is passed over (the
\* balance of objects is counted by CountUpTo).
RECURSIVE Scopes(_, _, _)
Scopes(evs, i, stack) ==
    LET e == evs[i].e
        top == IF stack = <<>> THEN "none" ELSE stack[Len(stack)]
        pop == SubSeq(stack, 1, Len(stack) - 1)
    IN  IF i > Len(evs) THEN stack
        ELSE CASE e = "StartObject" -> Scopes(evs, i + 1, Append(stack, "O"))
               [] e = "StartProperty" /\ top = "O" -> Scopes(evs, i + 1, Append(stack, "P"))
               [] e = "StartProperty" -> << "bad" >>
               [] e = "EndProperty" /\ top = "P" -> Scopes(evs, i + 1, pop)
               [] e = "EndProperty" -> << "bad" >>
               [] e = "EndObject" /\ top = "P" -> << "bad" >>
               [] e = "EndObject" /\ top = "O" -> Scopes(evs, i + 1, pop)
               [] OTHER -> Scopes(evs, i + 1, stack)

(***************************************************************************)
(* The claims.                                                             *)
(***************************************************************************)
\* C1: for every well-formed token stream no prefix of the emitted events
\* holds more EndObject than StartObject events, and once the document has
\* been consumed the two counts are equal.
C1_ObjectsBalanced ==
    /\ \A i \in 0..Len(results) :
          CountUpTo(results, "EndObject", i) <= CountUpTo(results, "StartObject", i)
    /\ DocComplete =>
          CountUpTo(results, "EndObject", Len(results))
             = CountUpTo(results, "StartObject", Len(results))

\* C2: every StartProperty is emitted inside an open object and is closed
\* by one EndProperty before that object's EndObject, every EndProperty
\* closes the property open on top, and no property is left open once the
\* document has been consumed.
C2_PropertiesNested ==
    LET scopes == Scopes(results, 1, <<>>)
    IN  /\ scopes # << "bad" >>
        /\ DocComplete => \A i \in 1..Len(scopes) : scopes[i] # "P"

\* C3: the context stack holds at least one entry in every reachable state.
C3_ContextStackNeverEmpty == Len(context) >= 1

\* C4: once a complete document has been consumed the context stack holds
\* exactly one entry, whose refcount is 1.
C4_ContextStackRestored ==
    DocComplete => Len(context) = 1 /\ context[1].refcount = 1

\* C6: no panic is reachable on a well-formed token stream.
C6_NoAbort == ~aborted

\* C5 as claimed: before Eof has been delivered the state stack holds at
\* least one state, also after a complete top-level value.
C5_StateStackNeverEmpty == ~eof => StackLen(state) >= 1

\* C5 as amended: the state stack holds at least one state as long as the
\* top-level value has not been delivered whole.
C5_NonEmptyUntilComplete == ~DocComplete => StackLen(state) >= 1

\* C5 witness: the middle of a document, one state left on the stack
C5_MidDocument ==
    /\ ~DocComplete
    /\ ~aborted
    /\ fed >= 3
    /\ StackLen(state) = 1
    /\ Len(results) >= 1

\* C7: process_context never fails hard: every call returns a context.
C7_NeverFailsHard ==
    (call.fn = "process_context" /\ IsSome(call.out)) => ~Unwrap(call.out).abort

\* C8: once Eof has been fed to convert_event, is_end is true, in whatever
\* state the converter was, and it stays true.
C8_EofMarksEnd == eof => is_end

\* C9: a call of convert_event with more than 4096 states on the stack
\* appends exactly one diagnostic, which has no code, and leaves the state
\* stack, the context stack, is_end and the events as they were.
C9_GuardDropsToken ==
    [][ StackLen(state) > MaxStateStack =>
          /\ Len(errors') = Len(errors) + 1
          /\ SubSeq(errors', 1, Len(errors)) = errors
          /\ errors'[Len(errors')].code = ""
          /\ UNCHANGED << state, context, is_end, results >> ]_vars

\* C9 witness: the guard has dropped a token
C9_GuardActed == StackLen(state) > MaxStateStack /\ Len(errors) >= 1

\* C10: in every reachable state the state stack holds at most 4096 states.
C10_StackAtMostCap == StackLen(state) <= MaxStateStack

\* C11: an @id read in the start-of-object phase is stored and emitted: when
\* the converter, in ObjectStart with a stored id, emits the object's
\* StartObject (on a property key or at the object's end), the Id event of
\* the stored id follows the StartObject directly.
C11_StoredIdEmitted ==
    [][ ( /\ state # <<>>
          /\ StackTop(state).tag = "ObjectStart"
          /\ IsSome(StackTop(state).id)
          /\ Len(results') > Len(results) )
        => /\ results'[Len(results) + 1].e = "StartObject"
           /\ Len(results') >= Len(results) + 2
           /\ results'[Len(results) + 2] = EvId(Unwrap(StackTop(state).id)) ]_vars

\* C12: an Id event comes directly after the StartObject of its object,
\* so an object has at most one and none after a property.
C12_IdDirectlyAfterStart ==
    \A i \in 1..Len(results) :
        results[i].e = "Id" => (i > 1 /\ results[i - 1].e = "StartObject")

(***************************************************************************)
(* Whole documents.  A JSON value is a tree: a scalar (its JsonNode), an   *)
(* array of values or an object, the sequence of its members [key, v] in   *)
(* the order of the text.  TokensOf is the token stream the tokenizer      *)
(* delivers for the value, NodeOf the JSON value as a JsonNode (a later    *)
(* member replaces an earlier one of the same key).                        *)
(***************************************************************************)
JScalar(node) == [j |-> "Scalar", node |-> node]

JArr(items) == [j |-> "Array", items |-> items]

JObj(members) == [j |-> "Object", members |-> members]

JMember(key, v) == [key |-> key, v |-> v]

JString(s) == JScalar(NodeString(s))

\* the token of a scalar
ScalarToken(node) ==
    CASE node.k = "String" -> TokString(node.s)
      [] node.k = "Number" -> TokNumber(node.s)
      [] node.k = "Boolean" -> TokBoolean(node.b)
      [] OTHER -> TokNull

RECURSIVE TokensOf(_)
RECURSIVE ItemTokens(_, _)
RECURSIVE MemberTokens(_, _)
\* the tokens of the first n items of an array
ItemTokens(items, n) ==
    IF n = 0 THEN <<>> ELSE ItemTokens(items, n - 1) \o TokensOf(items[n])

\* the tokens of the first n members of an object
MemberTokens(members, n) ==
    IF n = 0 THEN <<>>
    ELSE MemberTokens(members, n - 1)
         \o << TokObjectKey(members[n].key) >> \o TokensOf(members[n].v)

TokensOf(v) ==
    CASE v.j = "Array" ->
            << TokStartArray >> \o ItemTokens(v.items, Len(v.items)) \o << TokEndArray >>
      [] v.j = "Object" ->
            << TokStartObject >> \o MemberTokens(v.members, Len(v.members))
            \o << TokEndObject >>
      [] OTHER -> << ScalarToken(v.node) >>

RECURSIVE NodeOf(_)
RECURSIVE ItemNodes(_, _)
RECURSIVE MemberEntries(_, _)
ItemNodes(items, n) ==
    IF n = 0 THEN <<>> ELSE Append(ItemNodes(items, n - 1), NodeOf(items[n]))

MemberEntries(members, n) ==
    IF n = 0 THEN {}
    ELSE MapInsert(MemberEntries(members, n - 1), members[n].key, NodeOf(members[n].v))

NodeOf(v) ==
    CASE v.j = "Array" -> NodeArray(ItemNodes(v.items, Len(v.items)))
      [] v.j = "Object" -> NodeObject(MemberEntries(v.members, Len(v.members)))
      [] OTHER -> v.node

\* the token stream of a document: its tokens, then Eof
StreamOf(v) == TokensOf(v) \o << TokEof >>

\* a second vocabulary IRI
VocabIri2 == <<"h", ":", "w", "/">>

\* objects of two members
PairKeys ==
    { At(KwId), At(KwType), At(KwValue), At(KwLanguage), TermIri, <<"x">>,
      <<"@", "f", "o", "o">> }

PairValues ==
    { JString(<<"s">>), JString(TermIri), JScalar(NodeNumber(<<"1">>)), JScalar(NodeNull) }

PairDocs ==
    { JObj(<< JMember(k1, v1), JMember(k2, v2) >>) :
        k1 \in PairKeys, v1 \in PairValues, k2 \in PairKeys, v2 \in PairValues }

\* the values of @context: leaves, arrays and objects of one or two
\* leaves, and these wrapped twice in an array or under a key
ContextLeaves == { JScalar(NodeNull), JString(VocabIri), JArr(<<>>), JObj(<<>>) }

ContextKeys == { At(KwVocab), At(KwProtected), <<"a">> }

ContextFlat ==
    ContextLeaves
    \cup { JArr(<< x >>) : x \in ContextLeaves }
    \cup { JArr(<< x, y >>) : x \in ContextLeaves, y \in ContextLeaves }
    \cup { JObj(<< JMember(k, x) >>) : k \in ContextKeys, x \in ContextLeaves }
    \cup { JObj(<< JMember(k, x), JMember(l, y) >>) :
             k \in ContextKeys, x \in { JScalar(NodeNull), JString(VocabIri) },
             l \in ContextKeys, y \in { JScalar(NodeNull), JObj(<<>>) } }

Wrapped(vs) ==
    vs \cup { JArr(<< x >>) : x \in vs }
       \cup { JObj(<< JMember(k, x) >>) : k \in ContextKeys, x \in vs }

ContextValues == Wrapped(Wrapped(ContextFlat))

ContextDoc(c) == JObj(<< JMember(At(KwContext), c) >>)

ContextDocs == { ContextDoc(c) : c \in ContextValues }

\* an object with a vocabulary a that holds, under the key p, an object
\* with a vocabulary b; both hold the key x
VocabContext(a) == JObj(<< JMember(At(KwVocab), JString(a)) >>)

NestedDoc(a, b) ==
    JObj(<< JMember(At(KwContext), VocabContext(a)),
            JMember(<<"p">>,
                    JObj(<< JMember(At(KwContext), VocabContext(b)),
                            JMember(<<"x">>, JString(<<"s">>)) >>)),
            JMember(<<"x">>, JString(<<"s">>)) >>)

Vocabularies == { VocabIri, VocabIri2 }

NestedDocs == { NestedDoc(a, b) : a \in Vocabularies, b \in Vocabularies }

\* an object that holds @type or @id and then @context
HeadKeys == { At(KwType), At(KwId) }

HeadedContextDoc(k, v, c) ==
    JObj(<< JMember(k, JString(v)), JMember(At(KwContext), c) >>)

HeadedContextDocs ==
    { HeadedContextDoc(k, v, c) : k \in HeadKeys, v \in { <<"s">>, TermIri }, c \in ContextFlat }

\* value objects of three members: @value first, then two of @type,
\* @language and a keyword-like key
ValueObjectValues == PairValues \cup { JArr(<<>>), JObj(<<>>) }

ValueObjectKeys == { At(KwType), At(KwLanguage), <<"@", "f", "o", "o">> }

ValueObjectDocs ==
    { JObj(<< JMember(At(KwValue), v), JMember(k, JString(<<"s">>)),
              JMember(l, JString(<<"s">>)) >>) :
        v \in ValueObjectValues, k \in ValueObjectKeys, l \in ValueObjectKeys }

\* objects whose first member is @type: its value is a scalar, an object
\* or an array of up to two items; then nothing, a property, a second
\* @type or a @context
TypeItems ==
    { JString(<<"s">>), JString(TermIri), JScalar(NodeNumber(<<"1">>)), JScalar(NodeNull),
      JArr(<<>>), JObj(<<>>) }

TypeValues ==
    TypeItems
    \cup { JArr(<< x >>) : x \in TypeItems }
    \cup { JArr(<< x, y >>) : x \in TypeItems, y \in TypeItems }

TypeRests ==
    { <<>>,
      << JMember(TermIri, JString(<<"s">>)) >>,
      << JMember(At(KwType), JString(TermIri)) >>,
      << JMember(At(KwContext), JScalar(NodeNull)) >> }

TypeDoc(tv, rest) == JObj(<< JMember(At(KwType), tv) >> \o rest)

TypeDocs == { TypeDoc(tv, rest) : tv \in TypeValues, rest \in TypeRests }

Documents ==
    PairDocs \cup ContextDocs \cup NestedDocs \cup HeadedContextDocs \cup ValueObjectDocs
    \cup TypeDocs

\* the tokenizer is to deliver the stream of document doc
FeedCall(doc) == [fn |-> "feed", doc |-> doc, toks |-> StreamOf(doc), pos |-> 0]

InitDocs ==
    /\ \E base_url \in {None, Some(BaseIri)}, len \in BOOLEAN : New(base_url, len)
    /\ results = <<>>
    /\ errors = <<>>
    /\ aborted = FALSE
    /\ open = <<>>
    /\ fed = 0
    /\ eof = FALSE
    /\ call \in { FeedCall(doc) : doc \in Documents }

\* the tokenizer delivers the next token of the document, Eof the last
FeedDoc ==
    /\ call.fn = "feed"
    /\ call.pos < Len(call.toks)
    /\ LET tok == call.toks[call.pos + 1]
       IN  /\ convert_event(tok)
           /\ open' = IF aborted' \/ tok.t = "Eof" THEN open ELSE OpenAfter(tok)
           /\ fed' = IF aborted' \/ tok.t = "Eof" THEN fed ELSE Min(fed + 1, MaxTokens)
           /\ eof' = (eof \/ tok.t = "Eof")
           /\ call' = [call EXCEPT !.pos = IF aborted' THEN @ ELSE @ + 1]

NextDocs == FeedDoc

SpecDocs == InitDocs /\ [][NextDocs]_vars

\* the stream of document doc has been delivered up to and without Eof
DocFed(doc) ==
    /\ call.fn = "feed"
    /\ call.doc = doc
    /\ call.pos >= Len(call.toks) - 1


\* the events of NestedDoc(a, b) when keys are expanded with the vocabulary
\* of the innermost object that declares one
NestedEvents(a, b) ==
    << EvStartObject(<<>>),
       EvStartProperty(a \o <<"p">>),
       EvStartObject(<<>>),
       EvStartProperty(b \o <<"x">>),
       EvValue(ValString(<<"s">>), None, None),
       EvEndProperty,
       EvEndObject,
       EvEndProperty,
       EvStartProperty(a \o <<"x">>),
       EvValue(ValString(<<"s">>), None, None),
       EvEndProperty,
       EvEndObject >>

\* C13: nested context override and restore: in an object of vocabulary a
\* that holds an object of vocabulary b, the key x of the inner object
\* expands to b + x and the key x that follows the inner object to a + x.
C13_NestedContextRestored ==
    \A a \in Vocabularies, b \in Vocabularies :
        DocFed(NestedDoc(a, b)) => (~aborted /\ results = NestedEvents(a, b))

\* C13 witness: such a document, of two different vocabularies, consumed
C13_NestedConsumed ==
    /\ DocFed(NestedDoc(VocabIri, VocabIri2))
    /\ ~aborted
    /\ Len(results) = 12
    /\ is_end

\* the strings of the two-member documents
PairStrings == { <<"s">>, TermIri }

\* the document {"@value": v, k: t}
ValuePairDoc(v, k, t) ==
    JObj(<< JMember(At(KwValue), JString(v)), JMember(k, JString(t)) >>)

\* C14: the value object {"@value": v, "@type": t} yields the one event
\* Value{String(v), Some(t), None} and {"@value": v, "@language": l} the one
\* event Value{String(v), None, Some(l)}; no other event, no diagnostic.
C14_TypedAndTaggedValue ==
    \A v \in PairStrings, t \in PairStrings :
        /\ DocFed(ValuePairDoc(v, At(KwType), t)) =>
              /\ ~aborted
              /\ results = << EvValue(ValString(v), Some(t), None) >>
              /\ errors = <<>>
        /\ DocFed(ValuePairDoc(v, At(KwLanguage), t)) =>
              /\ ~aborted
              /\ results = << EvValue(ValString(v), None, Some(t)) >>
              /\ errors = <<>>

\* C14 witness: a typed value object consumed
C14_TypedValueConsumed ==
    /\ DocFed(ValuePairDoc(<<"s">>, At(KwType), TermIri))
    /\ ~aborted
    /\ is_end
    /\ Len(results) = 1

\* C15: the value object {"@value": x, "@value": y} yields the one event
\* Value of the first string x and the one diagnostic, of code "invalid
\* value object"; once the second value is skipped the converter is in the
\* Value state that holds x.
C15_SecondValueSkipped ==
    \A x \in PairStrings, y \in PairStrings :
        LET doc == ValuePairDoc(x, At(KwValue), y)
        IN  /\ DocFed(doc) =>
                  /\ ~aborted
                  /\ results = << EvValue(ValString(x), None, None) >>
                  /\ Len(errors) = 1
                  /\ errors[1].code = "invalid value object"
            /\ (call.fn = "feed" /\ call.doc = doc /\ call.pos = 5) =>
                  /\ ~aborted
                  /\ state = StackPush(EmptyStack, StValue(None, Some(ValString(x)), None))
                  /\ results = <<>>

\* C15 witness: a value object of two different @value strings consumed
C15_TwoValuesConsumed ==
    /\ DocFed(ValuePairDoc(<<"s">>, At(KwValue), TermIri))
    /\ ~aborted
    /\ is_end
    /\ Len(errors) = 1

\* the document {"@type": <not a string>, p: q}, p an absolute IRI
BadTypeDoc(n, p, q) == JObj(<< JMember(At(KwType), JScalar(n)), JMember(p, JString(q)) >>)

\* C16: a scalar @type that is no string is recoverable: {"@type": 1, p: q}
\* appends one diagnostic, of code "invalid @type value", and the events
\* StartObject([]), StartProperty(p), Value{String(q)}, EndProperty, EndObject.
C16_BadTypeRecovered ==
    \A n \in { NodeNumber(<<"1">>), NodeNull }, q \in PairStrings :
        DocFed(BadTypeDoc(n, TermIri, q)) =>
            /\ ~aborted
            /\ Len(errors) = 1
            /\ errors[1].code = "invalid @type value"
            /\ results = << EvStartObject(<<>>),
                            EvStartProperty(TermIri),
                            EvValue(ValString(q), None, None),
                            EvEndProperty,
                            EvEndObject >>

\* C16 witness: such an object with a number as @type consumed
C16_BadTypeConsumed ==
    /\ DocFed(BadTypeDoc(NodeNumber(<<"1">>), TermIri, <<"s">>))
    /\ ~aborted
    /\ is_end
    /\ Len(errors) = 1
    /\ Len(results) = 5

\* the sequence a is a prefix of the sequence b
IsPrefix(a, b) == Len(a) <= Len(b) /\ SubSeq(b, 1, Len(a)) = a

\* what a call of convert_event does to the converter and to the events is
\* fixed by the converter's state and the token: the outcomes of a call
\* that returns differ at most in their diagnostics
EventsDetermined ==
    (state # <<>> /\ ~TooLarge(state)) =>
        \A tok \in DocTokens :
            \A o1 \in Transition(StackTop(state), tok, context, lenient) :
                \A o2 \in Transition(StackTop(state), tok, context, lenient) :
                    (~o1.abort /\ ~o2.abort) =>
                        /\ o1.res = o2.res
                        /\ o1.push = o2.push
                        /\ o1.context = o2.context

IsContextDoc(doc) == Len(doc.members) = 1 /\ doc.members[1].key = At(KwContext)

\* C18: a @context value is passed intact to the context processor: while
\* the value of @context is read nothing aborts, and its last token hands
\* to after_buffering the JsonNode of the JSON value the tokens describe.
C18_ContextPassedIntact ==
    (call.fn = "feed" /\ IsContextDoc(call.doc)) =>
        LET last == Len(call.toks) - 2
        IN  /\ call.pos < last - 1 => ~aborted
            /\ call.pos = last - 1 =>
                  /\ state # <<>>
                  /\ StackTop(state).tag = "ToNode"
                  /\ OnToNode(StackTop(state), call.toks[last])
                        = ArmBuffered(NodeOf(call.doc.members[1].v))

\* C19: process_context on a null local context returns, whatever the
\* active context and the flags, a context with no term definition, no
\* vocabulary mapping and no default language, whose original_base_url is
\* the active context's.
C19_NullContextResets ==
    (call.fn = "process_context" /\ IsSome(call.out) /\ call.local_context = NodeNull) =>
        LET o == Unwrap(call.out)
        IN  /\ ~o.abort
            /\ o.ctx.term_definitions = {}
            /\ o.ctx.vocabulary_mapping = None
            /\ o.ctx.default_language = None
            /\ o.ctx.original_base_url = call.active_context.original_base_url

\* C19 witness: a null local context processed against a context that
\* holds term definitions, a vocabulary mapping and a default language
C19_NullProcessed ==
    /\ call.fn = "process_context"
    /\ IsSome(call.out)
    /\ call.local_context = NodeNull
    /\ call.active_context.term_definitions # {}
    /\ IsSome(call.active_context.vocabulary_mapping)
    /\ IsSome(call.active_context.default_language)
    /\ ~call.propagate

(***************************************************************************)
(* Direct calls of expand_iri: the active context, the string and the      *)
(* flags are drawn from the sets below.                                    *)
(***************************************************************************)
\* the active contexts of the calls: those of the process_context calls and
\* one whose terms map to a keyword and to an IRI without being prefixes
IriContexts ==
    CallContexts
    \cup { [ NewEmpty(Some(BaseIri)) EXCEPT
               !.term_definitions =
                   { [name |-> <<"t">>, iri_mapping |-> Some(At(KwType)), prefix |-> FALSE,
                      protected |-> FALSE],
                     [name |-> <<"s">>, iri_mapping |-> Some(TermIri), prefix |-> FALSE,
                      protected |-> FALSE] } ] }

\* the strings of the calls
IriValues ==
    { <<>>, <<"s">>, <<"p">>, <<"q">>, <<"t">>, <<"r", "/", "s">>, <<"#", "f">>,
      <<"@">>, At(KwId), At(KwType), At(KwContext), <<"@", "f", "o", "o">>,
      <<"@", "1">>, <<"@", "a", "-", "b">>,
      <<"_", ":", "b">>, <<"p", ":", "x">>, <<"q", ":", "x">>, TermIri, VocabIri,
      <<"h", ":", "/", "/", "x">>, <<"1", ":", "x">>, <<":", "x">>, BadIri,
      <<"h", ":", "<">>,
      <<"@", "T", "y", "p", "e">>, <<"@", "I", "D">>, <<"@", "i", "d", "1">>,
      <<"@", ":", "x">> }
    \cup { At(k) : k \in ReservedKeywords }

ExpandIriCalls ==
    [ fn : {"expand_iri"},
      ctx : IriContexts,
      lenient : BOOLEAN,
      value : IriValues,
      document_relative : BOOLEAN,
      vocab : BOOLEAN,
      out : {None} ]

InitIri ==
    /\ New(None, FALSE)
    /\ results = <<>>
    /\ errors = <<>>
    /\ aborted = FALSE
    /\ open = <<>>
    /\ fed = 0
    /\ eof = FALSE
    /\ call \in ExpandIriCalls

\* the call returns
CallExpandIri ==
    /\ call.fn = "expand_iri"
    /\ call.out = None
    /\ call' = [call EXCEPT !.out = Some(expand_iri(call.ctx, call.lenient, call.value,
                                                    call.document_relative, call.vocab))]
    /\ UNCHANGED << state, context, is_end, lenient, results, errors, aborted, open,
                    fed, eof >>

NextIri == CallExpandIri

SpecIri == InitIri /\ [][NextIri]_vars

\* expand_iri(s, false, false) has returned, s without ':' and no term
NoColonNoTermExpanded ==
    /\ call.fn = "expand_iri"
    /\ IsSome(call.out)
    /\ ~call.document_relative
    /\ ~call.vocab
    /\ IndexOf(call.value, ":") = 0
    /\ TermGet(call.ctx, call.value) = None

\* the string is '@' followed by ASCII letters only (or by nothing)
KeywordLike(s) ==
    /\ StartsWith(s, <<"@">>)
    /\ \A i \in 2..Len(s) : IsAsciiAlphabetic(s[i])

\* C20 as claimed: for every string s without ':' that matches no term,
\* expand_iri(s, false, false) returns Id(s).
C20_NoColonUnchanged == NoColonNoTermExpanded => Unwrap(call.out) = IdOf(call.value)

\* C20 as amended: for every string s without ':' that matches no term and
\* is not '@' followed by ASCII letters only, expand_iri(s, false, false)
\* returns Id(s).
C20_NoColonNoKeywordUnchanged ==
    (NoColonNoTermExpanded /\ ~KeywordLike(call.value)) =>
        Unwrap(call.out) = IdOf(call.value)

\* C20 witness: such a string expanded in a context that has a vocabulary
\* mapping and a base IRI
C20_PlainStringExpanded ==
    /\ NoColonNoTermExpanded
    /\ ~KeywordLike(call.value)
    /\ Len(call.value) >= 1
    /\ IsSome(call.ctx.vocabulary_mapping)
    /\ IsSome(call.ctx.base_iri)


(***************************************************************************)
(* Keyword detection of expand_iri.                                        *)
(***************************************************************************)
\* expand_iri has returned for a string that starts with '@'
AtStringExpanded ==
    /\ call.fn = "expand_iri"
    /\ IsSome(call.out)
    /\ StartsWith(call.value, <<"@">>)

\* every character of s is an ASCII letter
AllAlphabetic(s) == \A i \in 1..Len(s) : IsAsciiAlphabetic(s[i])

\* C21: '@' followed by a reserved keyword k gives Keyword(k) whatever the
\* active context and the flags; '@' followed by ASCII letters only that are
\* no reserved keyword gives none; expand_iri returns none in no other case.
C21_KeywordDetection ==
    (call.fn = "expand_iri" /\ IsSome(call.out)) =>
        LET at == StartsWith(call.value, <<"@">>)
            suffix == IF at THEN Tail(call.value) ELSE <<>>
            out == Unwrap(call.out)
        IN  /\ (at /\ suffix \in ReservedKeywords) => out = KeywordOf(suffix)
            /\ (at /\ suffix \notin ReservedKeywords /\ AllAlphabetic(suffix)) =>
                   out = NoIri
            /\ out.k = "None" =>
                   (at /\ suffix \notin ReservedKeywords /\ AllAlphabetic(suffix))

\* C21 witness: a reserved keyword expanded with the vocab flag set in a
\* context that has a vocabulary mapping and term definitions
C21_KeywordExpanded ==
    /\ AtStringExpanded
    /\ Tail(call.value) \in ReservedKeywords
    /\ call.vocab
    /\ IsSome(call.ctx.vocabulary_mapping)
    /\ call.ctx.term_definitions # {}

\* the suffix after '@' holds a character that is no ASCII letter
HasNonLetter(s) == \E i \in 1..Len(s) : ~IsAsciiAlphabetic(s[i])

\* the suffix after '@' holds an upper-case and a lower-case letter, or only
\* upper-case letters, and nothing else
MixedCase(s) ==
    /\ AllAlphabetic(s)
    /\ \E i \in 1..Len(s) : s[i] \in UpperLetters

\* C22 as claimed: a string that starts with '@' and whose remainder is
\* mixed-case or holds a non-letter expands to an Id.
C22_MixedCaseOrNonLetterIsId ==
    (AtStringExpanded /\ (MixedCase(Tail(call.value)) \/ HasNonLetter(Tail(call.value)))) =>
        Unwrap(call.out).k = "Id"

\* C22 as amended: a string that starts with '@', whose remainder holds a
\* non-letter and that is no term of the active context expands to an Id;
\* a remainder of letters only, mixed-case included, that is no reserved
\* keyword expands to none.
C22_NonLetterIsId ==
    AtStringExpanded =>
        /\ (HasNonLetter(Tail(call.value)) /\ TermGet(call.ctx, call.value) = None) =>
               Unwrap(call.out).k = "Id"
        /\ MixedCase(Tail(call.value)) => Unwrap(call.out) = NoIri

\* C22 witness: '@' followed by a non-letter expanded against a vocabulary
\* mapping
C22_NonLetterExpanded ==
    /\ AtStringExpanded
    /\ HasNonLetter(Tail(call.value))
    /\ call.vocab
    /\ IsSome(call.ctx.vocabulary_mapping)
    /\ Unwrap(call.out).k = "Id"


(***************************************************************************)
(* Object scopes.  The tokenizer of SpecScopes delivers documents made of  *)
(* objects, null and the keys @context and p, and records for every open   *)
(* object the context that was effective right before its StartObject.     *)
(***************************************************************************)
MaxScopeTokens == 11

MaxScopeDepth == 3

ScopeKeys == { At(KwContext), <<"p">> }

ScopeTokens ==
    { TokNull, TokStartObject, TokEndObject }
    \cup { TokObjectKey(s) : s \in ScopeKeys }

\* the context expand_iri would use: the top entry of the context stack
EffectiveContext(cx) == IF cx = <<>> THEN None ELSE Some(cx[Len(cx)].ctx)

\* the StartObject token opens an object scope: it is met in the Element or
\* ElementArray state, not inside a value that is buffered or skipped
EntersScope(tok) ==
    /\ tok.t = "StartObject"
    /\ state # <<>>
    /\ StackTop(state).tag \in {"Element", "ElementArray"}

\* the contexts recorded for the open objects after the token; an object
\* that opens no scope records none
EnteredAfter(tok) ==
    CASE tok.t = "StartObject" ->
             Append(call.entered,
                    IF EntersScope(tok) THEN EffectiveContext(context) ELSE None)
      [] tok.t = "EndObject" -> SubSeq(call.entered, 1, Len(call.entered) - 1)
      [] OTHER -> call.entered

InitScopes ==
    /\ \E base_url \in {None, Some(BaseIri)}, len \in BOOLEAN : New(base_url, len)
    /\ results = <<>>
    /\ errors = <<>>
    /\ aborted = FALSE
    /\ open = <<>>
    /\ fed = 0
    /\ eof = FALSE
    /\ call = [fn |-> "scopes", entered |-> <<>>]

\* the tokenizer delivers the next token of the document
FeedScoped(tok) ==
    /\ call.fn = "scopes"
    /\ ~eof
    /\ fed < MaxScopeTokens
    /\ WellFormedNext(tok)
    /\ StackLen(OpenAfter(tok)) <= MaxScopeDepth
    /\ convert_event(tok)
    /\ open' = IF aborted' THEN open ELSE OpenAfter(tok)
    /\ fed' = IF aborted' THEN fed ELSE fed + 1
    /\ call' = IF aborted' THEN call ELSE [call EXCEPT !.entered = EnteredAfter(tok)]
    /\ UNCHANGED eof

NextScopes ==
    \/ \E tok \in ScopeTokens : FeedScoped(tok)
    \/ FeedEof

SpecScopes == InitScopes /\ [][NextScopes]_vars

\* an object of the document has just been closed
ScopeLeft ==
    /\ call.fn = "scopes"
    /\ Len(call.entered') < Len(call.entered)
    /\ IsSome(call.entered[Len(call.entered)])

\* C23: the context effective right after an object's EndObject is the
\* context that was effective right before its StartObject, for every
\* object of a well-formed token stream.
C23_ScopeRestored ==
    [][ ScopeLeft => EffectiveContext(context') = call.entered[Len(call.entered)] ]_vars


\* the sum of the refcounts of the entries 1..n of the context stack
RECURSIVE SumRefcounts(_, _)
SumRefcounts(cx, n) == IF n = 0 THEN 0 ELSE cx[n].refcount + SumRefcounts(cx, n - 1)

\* the number of objects entered through Element/ElementArray and not yet
\* closed, among the open objects 1..n
RECURSIVE OpenScopes(_, _)
OpenScopes(entered, n) ==
    IF n = 0 THEN 0
    ELSE (IF IsSome(entered[n]) THEN 1 ELSE 0) + OpenScopes(entered, n - 1)

\* every refcount is a number of open object scopes and their sum is the
\* number of open object scopes
Accounted(cx, entered) ==
    /\ \A i \in 1..Len(cx) :
           cx[i].refcount >= 0 /\ cx[i].refcount <= OpenScopes(entered, Len(entered))
    /\ SumRefcounts(cx, Len(cx)) = OpenScopes(entered, Len(entered))

\* C24: in every reachable state the refcounts of the context stack count
\* the still-open object scopes (their sum is the number of objects entered
\* and not yet closed); an entry is pushed only when a @context value has
\* been buffered, entering an object only increments the top entry's
\* refcount, and an entry is removed only by the pop that brings its
\* refcount to zero.
C24_RefcountAccounting ==
    [][ call.fn = "scopes" =>
          /\ Accounted(context', call.entered')
          /\ Len(context') > Len(context) =>
                 (state # <<>> /\ StackTop(state).tag = "ToNode")
          /\ (Len(call.entered') > Len(call.entered)
                /\ IsSome(call.entered'[Len(call.entered')])) =>
                 context' = [context EXCEPT ![Len(context)].refcount = @ + 1]
          /\ Len(context') < Len(context) =>
                 /\ Len(call.entered') < Len(call.entered)
                 /\ context[Len(context)].refcount = 1
                 /\ context' = SubSeq(context, 1, Len(context) - 1) ]_vars


(***************************************************************************)
(* The end of the buffering of a @context value.                           *)
(***************************************************************************)
\* the token the tokenizer of SpecDocs delivers next
NextToken == call.toks[call.pos + 1]

\* the step completes the buffering of a @context value: the ToNode state
\* on top is replaced by another state and the converter goes on
BufferingCompletes ==
    /\ call.fn = "feed"
    /\ call.pos < Len(call.toks)
    /\ state # <<>>
    /\ StackTop(state).tag = "ToNode"
    /\ state' # state
    /\ ~aborted'
    /\ (state' = <<>> \/ StackTop(state').tag # "ToNode")

\* the contexts the context processor can return for the buffered value
ProcessedContexts(node, len) ==
    { pc.ctx : pc \in { o \in process_context(DefaultContext, node, None, <<>>, FALSE,
                                              TRUE, "JsonLd1_0", len) : ~o.abort } }

\* C25: when the buffering of a @context value completes, the top context
\* stack entry's refcount is decremented by one, the context returned by
\* the context processor is pushed with refcount 1 (the sum of the
\* refcounts is unchanged), ObjectStart is re-entered with no types and no
\* id, and no event is emitted.
C25_BufferedContextInstalled ==
    [][ BufferingCompletes =>
          LET n == Len(context)
              node == OnToNode(StackTop(state), NextToken).node
          IN  /\ n >= 1
              /\ Len(context') = n + 1
              /\ SubSeq(context', 1, n) = [context EXCEPT ![n].refcount = @ - 1]
              /\ context'[n + 1].refcount = 1
              /\ context'[n + 1].ctx \in ProcessedContexts(node, lenient)
              /\ SumRefcounts(context', n + 1) = SumRefcounts(context, n)
              /\ state' = StackPush(StackPop(state), StObjectStart(<<>>, None))
              /\ results' = results ]_vars

\* C25 witness: a vocabulary context installed in an object that had
\* collected a type before its @context key
C25_ContextInstalledAfterType ==
    /\ call.fn = "feed"
    /\ call.doc = HeadedContextDoc(At(KwType), <<"s">>, VocabContext(VocabIri))
    /\ call.pos = Len(call.toks) - 2
    /\ ~aborted
    /\ state # <<>>
    /\ StackTop(state) = StObjectStart(<<>>, None)
    /\ Len(context) = 2
    /\ context[2].ctx.vocabulary_mapping = Some(VocabIri)


\* C26: the context installed for a @context member is the one the context
\* processor computes from the default context, the @context value and the
\* lenient flag alone: it is the same whatever the enclosing active context
\* and the converter's base IRI, and it inherits neither the enclosing
\* vocabulary mapping nor the document base IRI.
C26_ContextFromDefaultAlone ==
    [][ BufferingCompletes =>
          LET node == OnToNode(StackTop(state), NextToken).node
              installed == context'[Len(context')].ctx
              computed == ProcessedContexts(node, lenient)
          IN  /\ Cardinality(computed) = 1
              /\ installed = CHOOSE c \in computed : TRUE
              /\ installed.original_base_url = None
              /\ installed.base_iri = None
              /\ (node.k = "Null"
                    \/ (node.k = "Object" /\ MapGet(node.entries, At(KwVocab)) = None)) =>
                     installed.vocabulary_mapping = None ]_vars

\* C26 witness: a context installed inside an object whose enclosing active
\* context has another vocabulary mapping, in a converter with a base IRI
C26_InstalledUnderOtherVocabulary ==
    /\ call.fn = "feed"
    /\ call.doc = NestedDoc(VocabIri, VocabIri2)
    /\ call.pos = 13
    /\ ~aborted
    /\ Len(context) = 3
    /\ context[1].ctx.base_iri = Some(BaseIri)
    /\ context[2].ctx.vocabulary_mapping = Some(VocabIri)
    /\ context[3].ctx.vocabulary_mapping = Some(VocabIri2)
    /\ context[3].ctx.base_iri = None


\* a ToNode state is on the state stack only as its top state, once
OnlyTopToNode(st) ==
    \A i \in 1..Len(st) :
        st[i].x.tag = "ToNode" => (i = Len(st) /\ st[i].n = 1)

\* a @context value is being buffered
Buffering == state # <<>> /\ StackTop(state).tag = "ToNode"

\* C27: while a @context value is buffered, at most one ToNode state is on
\* the state stack and it is the top state; a token delivered during the
\* buffering emits no event, leaves the context stack as it is until the
\* value is complete, and leaves the states below the ToNode state as they
\* are.
C27_BufferingIsolated ==
    [][ /\ OnlyTopToNode(state')
        /\ Buffering =>
             /\ results' = results
             /\ StackPop(state') = StackPop(state)
             /\ (state' # <<>> /\ StackTop(state').tag = "ToNode") =>
                    context' = context ]_vars

\* C27 witness: inside the @context value of an inner object, a key of the
\* value read, the enclosing object's state below the ToNode state
C27_BufferingInsideObject ==
    /\ call.fn = "feed"
    /\ call.doc \in NestedDocs
    /\ Buffering
    /\ StackLen(state) = 2
    /\ Len(StackTop(state).stack) = 1
    /\ IsSome(StackTop(state).current_key)
    /\ Len(results) > 0


(***************************************************************************)
(* Skipped values.  The tokenizer of SpecSkip delivers an object whose     *)
(* keys are all the keyword-like @foo, so every member value is skipped;   *)
(* the values are arrays of any depth, and objects near the top.           *)
(***************************************************************************)
MaxSkipObjectDepth == 3

SkipKey == <<"@", "f", "o", "o">>

SkipTokens ==
    { TokNull, TokStartArray, TokEndArray, TokStartObject, TokEndObject,
      TokObjectKey(SkipKey) }

InitSkip ==
    /\ \E base_url \in {None, Some(BaseIri)}, len \in BOOLEAN : New(base_url, len)
    /\ results = <<>>
    /\ errors = <<>>
    /\ aborted = FALSE
    /\ open = <<>>
    /\ fed = 0
    /\ eof = FALSE
    /\ call = [fn |-> "skip"]

\* the tokenizer delivers the next token of the document
FeedSkip(tok) ==
    /\ call.fn = "skip"
    /\ ~eof
    /\ Len(errors) < MaxDropped
    /\ WellFormedNext(tok)
    /\ fed = 0 => tok.t = "StartObject"
    /\ tok.t = "StartObject" => StackLen(open) < MaxSkipObjectDepth
    /\ convert_event(tok)
    /\ Delivered(tok)

NextSkip ==
    \/ \E tok \in SkipTokens : FeedSkip(tok)
    \/ FeedEof

SpecSkip == InitSkip /\ [][NextSkip]_vars

\* the top-level object is open and a member's value has been delivered
\* whole, or no member yet
BetweenMembers == fed >= 1 /\ open = StackPush(EmptyStack, "K")

\* the state stack below the Skip state of a member of the top-level object
BelowSkip == StackPush(EmptyStack, StObjectStart(<<>>, None))

\* after the last token of a skipped value the state stack is the stack
\* that was below the Skip state; during the skip no event and no
\* diagnostic is appended and the context stack is unchanged
SkipBalanced ==
    /\ open # <<>> =>
           /\ results = <<>>
           /\ errors = <<>>
           /\ Len(context) = 1
           /\ context[1].refcount = 1
    /\ BetweenMembers => state = BelowSkip

\* C28 as claimed: a Skip state consumes exactly one complete value and a
\* SkipArray state the rest of one array, for every well-formed value,
\* whatever its nesting; no event, no diagnostic, no context change.
C28_SkipConsumesValue == call.fn = "skip" => SkipBalanced

\* C28 as amended: the same, for every well-formed value whose nesting
\* keeps the state stack within its cap of 4096 states.
C28_SkipConsumesShallowValue ==
    (call.fn = "skip" /\ StackLen(state) <= MaxStateStack) => SkipBalanced

\* C28 witness: a nested value has been skipped whole and the state stack
\* is back to the stack below the Skip state
C28_NestedValueSkipped ==
    /\ call.fn = "skip"
    /\ BetweenMembers
    /\ fed >= 7
    /\ state = BelowSkip
    /\ ~aborted


\* the keys of a value object other than @value, @language and @type: an
\* absolute IRI, a relative one, an unsupported keyword and a keyword-like
\* string that is no keyword
OtherValueKeys == { TermIri, <<"x">>, At(KwId), <<"@", "f", "o", "o">> }

\* C29: in a value object a key other than @value, @language and @type has
\* its value skipped and leaves the object a value object: once the value
\* of the key is skipped the converter is in the Value state that holds the
\* @value read before, no event has been emitted, and at EndObject the one
\* Value event is emitted, without StartObject, StartProperty or EndObject.
C29_OtherKeySkipped ==
    \A v \in PairStrings, k \in OtherValueKeys, t \in PairStrings :
        LET doc == ValuePairDoc(v, k, t)
        IN  /\ DocFed(doc) =>
                  /\ ~aborted
                  /\ results = << EvValue(ValString(v), None, None) >>
            /\ (call.fn = "feed" /\ call.doc = doc /\ call.pos = 5) =>
                  /\ ~aborted
                  /\ state = StackPush(EmptyStack, StValue(None, Some(ValString(v)), None))
                  /\ results = <<>>


\* the document has a member of key k
HasMember(doc, k) == \E i \in 1..Len(doc.members) : doc.members[i].key = k

\* the diagnostics appended by the step
NewErrors == SubSeq(errors', Len(errors) + 1, Len(errors'))

\* C30: at the EndObject of a value object at most one Value event is
\* emitted, exactly when a non-null scalar @value was stored; with both
\* @language and @type a diagnostic "invalid value object" is appended, with
\* @language and a @value that is no string a diagnostic "invalid
\* language-tagged value"; the Value event is still emitted and the context
\* is popped once.
C30_ValueObjectEnd ==
    [][ (call.fn = "feed" /\ call.doc \in ValueObjectDocs
           /\ call.pos = Len(call.toks) - 2) =>
          LET v == call.doc.members[1].v
              stored == v.j = "Scalar" /\ v.node.k # "Null"
              typed == HasMember(call.doc, At(KwType))
              tagged == HasMember(call.doc, At(KwLanguage))
          IN  /\ ~aborted'
              /\ results = <<>>
              /\ stored =>
                     /\ Len(results') = 1
                     /\ results'[1].e = "Value"
                     /\ results'[1].value = ScalarValue(ScalarToken(v.node))
              /\ ~stored => results' = <<>>
              /\ (stored /\ typed /\ tagged) =>
                     \E i \in 1..Len(NewErrors) : NewErrors[i].code = "invalid value object"
              /\ (stored /\ tagged /\ v.node.k # "String") =>
                     \E i \in 1..Len(NewErrors) :
                         NewErrors[i].code = "invalid language-tagged value"
              /\ \E c \in pop_context(context) : ~c.abort /\ context' = c.context ]_vars


(***************************************************************************)
(* The types of a node object.                                             *)
(***************************************************************************)
\* the strings given as @type value v or as items of the array v, in
\* document order
RECURSIVE TypeStringsOfItems(_, _)
TypeStringsOfItems(items, n) ==
    IF n = 0 THEN <<>>
    ELSE TypeStringsOfItems(items, n - 1)
         \o (IF items[n].j = "Scalar" /\ items[n].node.k = "String"
             THEN << items[n].node.s >> ELSE <<>>)

TypeStrings(v) ==
    IF v.j = "Array" THEN TypeStringsOfItems(v.items, Len(v.items))
    ELSE TypeStringsOfItems(<< v >>, 1)

\* the strings given as @type in the first n members of an object
RECURSIVE MemberTypeStrings(_, _)
MemberTypeStrings(members, n) ==
    IF n = 0 THEN <<>>
    ELSE MemberTypeStrings(members, n - 1)
         \o (IF members[n].key = At(KwType) THEN TypeStrings(members[n].v) ELSE <<>>)

\* the values of @type that are no string: the non-string scalars, nested
\* arrays and objects given as @type value or as items of its array
BadTypeCount(v) ==
    LET items == IF v.j = "Array" THEN v.items ELSE << v >>
    IN  Cardinality({ i \in 1..Len(items) :
                        ~(items[i].j = "Scalar" /\ items[i].node.k = "String") })

\* the expansion (vocab = true) of the strings of ss that expand to an IRI
RECURSIVE ExpandedTypes(_, _, _)
ExpandedTypes(ss, n, len) ==
    IF n = 0 THEN <<>>
    ELSE LET x == expand_iri(NewEmpty(None), len, ss[n], FALSE, TRUE)
         IN  ExpandedTypes(ss, n - 1, len) \o (IF x.k = "Id" THEN << x.s >> ELSE <<>>)

\* C31: the types of a node object's StartObject event are the expansions,
\* in document order, of every string given as @type value or as item of an
\* @type array of the object; every other value inside @type appends one
\* diagnostic "invalid @type value" and the later keys are still read.
C31_TypesCollected ==
    (call.fn = "feed" /\ call.doc \in TypeDocs /\ DocFed(call.doc)) =>
        LET members == call.doc.members
            strings == MemberTypeStrings(members, Len(members))
        IN  /\ ~aborted
            /\ Len(results) >= 2
            /\ results[1] = EvStartObject(ExpandedTypes(strings, Len(strings), lenient))
            /\ results[Len(results)] = EvEndObject
            /\ Cardinality({ i \in 1..Len(errors) : errors[i].code = "invalid @type value" })
                   = BadTypeCount(members[1].v)
            /\ HasMember(call.doc, TermIri) => results[2] = EvStartProperty(TermIri)


(***************************************************************************)
(* Arrays of scalars.  The tokenizer of SpecFlatten delivers one value     *)
(* made of arrays and scalars, at top level or as the value of the one     *)
(* property of an object, and records the Value events due for its         *)
(* non-null scalars.  Arrays nest to any depth, the non-null scalars are   *)
(* near the top or deeper than the cap of the state stack.                 *)
(***************************************************************************)
MaxFlatDepth == 3

MaxFlatScalars == 2

FlatScalars == { TokString(<<"s">>), TokNumber(<<"1">>) }

FlatTokens ==
    { TokNull, TokStartArray, TokEndArray, TokStartObject, TokEndObject,
      TokObjectKey(TermIri) }
    \cup FlatScalars

InitFlatten ==
    /\ \E base_url \in {None, Some(BaseIri)}, len \in BOOLEAN : New(base_url, len)
    /\ results = <<>>
    /\ errors = <<>>
    /\ aborted = FALSE
    /\ open = <<>>
    /\ fed = 0
    /\ eof = FALSE
    /\ call \in { [fn |-> "flatten", property |-> b, expected |-> <<>>] : b \in BOOLEAN }

\* the tokenizer delivers the next token of the document
FeedFlat(tok) ==
    /\ call.fn = "flatten"
    /\ ~eof
    /\ Len(errors) < MaxDropped
    /\ WellFormedNext(tok)
    /\ tok.t = "StartObject" => (call.property /\ fed = 0)
    /\ (call.property /\ fed = 0) => tok.t = "StartObject"
    /\ tok.t = "ObjectKey" => fed = 1
    /\ (call.property /\ fed = 1) => tok.t = "ObjectKey"
    /\ tok \in FlatScalars =>
           /\ StackLen(open) <= MaxFlatDepth \/ StackLen(open) > MaxStateStack
           /\ Len(call.expected) < MaxFlatScalars
    /\ convert_event(tok)
    /\ open' = IF aborted' THEN open ELSE OpenAfter(tok)
    /\ fed' = IF aborted' THEN fed ELSE Min(fed + 1, MaxTokens)
    /\ call' = IF aborted' \/ tok \notin FlatScalars THEN call
               ELSE [call EXCEPT !.expected = Append(@, EvValue(ScalarValue(tok), None, None))]
    /\ UNCHANGED eof

NextFlatten ==
    \/ \E tok \in FlatTokens : FeedFlat(tok)
    \/ FeedEof

SpecFlatten == InitFlatten /\ [][NextFlatten]_vars

\* the value has been delivered whole
FlatValueComplete ==
    IF call.property THEN fed >= 3 /\ open = StackPush(EmptyStack, "K")
    ELSE fed >= 1 /\ open = <<>>

\* the state stack below the Element state that reads the value
BelowElement ==
    IF call.property THEN StackPush(EmptyStack, StObject(TRUE)) ELSE EmptyStack

\* one Value event with no type and no language per non-null scalar, in
\* document order, between the events of the enclosing object; the state
\* stack below the Element state is back once the value is complete
Flattened ==
    /\ results =
           (IF call.property /\ fed >= 2
            THEN << EvStartObject(<<>>), EvStartProperty(TermIri) >> ELSE <<>>)
           \o call.expected
           \o (IF call.property /\ fed >= 3 /\ open = <<>>
               THEN << EvEndProperty, EvEndObject >> ELSE <<>>)
    /\ FlatValueComplete => state = BelowElement

\* C32 as claimed: a value made of any nesting of arrays of scalars emits
\* exactly one Value event per non-null scalar, in document order, and
\* leaves the state stack that was below the Element state.
C32_ArraysFlatten == call.fn = "flatten" => Flattened

\* C32 as amended: the same, for a value whose nesting keeps the state
\* stack within its cap of 4096 states.
C32_ShallowArraysFlatten ==
    (call.fn = "flatten" /\ StackLen(state) <= MaxStateStack) => Flattened

\* C32 witness: a property value of nested arrays with two scalars has
\* been delivered whole
C32_NestedArrayFlattened ==
    /\ call.fn = "flatten"
    /\ call.property
    /\ FlatValueComplete
    /\ fed >= 8
    /\ Len(call.expected) = 2
    /\ call.expected[1] # call.expected[2]
    /\ ~aborted


\* C33: for a string p:s where p is not "_", s does not start with "//"
\* and the active context holds a term named p with prefix = true and IRI
\* mapping m, expand_iri returns Id(m + s).
C33_CompactIriExpanded ==
    (call.fn = "expand_iri" /\ IsSome(call.out) /\ IndexOf(call.value, ":") > 0) =>
        LET i == IndexOf(call.value, ":")
            prefix == SubSeq(call.value, 1, i - 1)
            suffix == SubSeq(call.value, i + 1, Len(call.value))
            def == TermGet(call.ctx, prefix)
        IN  (/\ prefix # <<"_">>
             /\ ~StartsWith(suffix, <<"/", "/">>)
             /\ IsSome(def)
             /\ Unwrap(def).prefix
             /\ IsSome(Unwrap(def).iri_mapping)) =>
                Unwrap(call.out) = IdOf(Unwrap(Unwrap(def).iri_mapping) \o suffix)


\* C34: process_context on a context object that carries @propagate with a
\* boolean value returns a context, the boolean taking the place of the
\* propagate parameter: when it is false and the active context has no
\* previous_context, the returned context's previous_context is a snapshot
\* of the active context; a non-boolean @propagate appends a diagnostic.
C34_PropagateHonoured ==
    (/\ call.fn = "process_context"
     /\ IsSome(call.out)
     /\ call.local_context.k = "Object"
     /\ IsSome(MapGet(call.local_context.entries, At(KwPropagate)))) =>
        LET o == Unwrap(call.out)
            p == Unwrap(MapGet(call.local_context.entries, At(KwPropagate)))
        IN  IF p.k = "Boolean"
            THEN /\ ~o.abort
                 /\ (~p.b /\ call.active_context.previous_context = None) =>
                        o.ctx.previous_context = Some(call.active_context)
            ELSE \E i \in 1..Len(o.errs) :
                    o.errs[i] = Msg("@propagate value must be a boolean")


(***************************************************************************)
(* The @base, @vocab and @version entries of a context object.             *)
(***************************************************************************)
\* the keys of a context object that the key loop handles without
\* reaching unimplemented!()
HandledKeys == { At(KwVersion), At(KwBase), At(KwVocab), At(KwProtected) }

\* process_context has returned for a context object that holds the key
\* and, beside it, handled keys only
EntryProcessed(key) ==
    /\ call.fn = "process_context"
    /\ IsSome(call.out)
    /\ call.local_context.k = "Object"
    /\ IsSome(MapGet(call.local_context.entries, key))
    /\ \A e \in call.local_context.entries : e.key \in HandledKeys

\* the value of the entry of the key
EntryValue(key) == Unwrap(MapGet(call.local_context.entries, key))

\* the number of diagnostics of the code that the call has appended
Appended(code) ==
    Cardinality({ i \in 1..Len(Unwrap(call.out).errs) : Unwrap(call.out).errs[i].code = code })

\* C35: @base in a context object applies only when remote_contexts is
\* empty: then null clears base_iri and a string sets it to its resolution
\* against the current base (to the string itself when there is no base),
\* always in lenient mode and when the resolution or the parse succeeds
\* otherwise; a failure or a non-string value appends one diagnostic
\* "invalid base IRI" and leaves base_iri as it was; with remote_contexts
\* not empty nothing changes and no diagnostic is appended.
C35_BaseEntry ==
    EntryProcessed(At(KwBase)) =>
        LET o == Unwrap(call.out)
            v == EntryValue(At(KwBase))
            base == call.active_context.base_iri
            ok == IF IsSome(base) THEN ResolveOk(Unwrap(base), v.s) ELSE IriParseOk(v.s)
        IN  /\ ~o.abort
            /\ IF call.remote_contexts # <<>>
               THEN o.ctx.base_iri = base /\ Appended("invalid base IRI") = 0
               ELSE IF v.k = "Null"
               THEN o.ctx.base_iri = None /\ Appended("invalid base IRI") = 0
               ELSE IF v.k = "String" /\ (call.lenient \/ ok)
               THEN /\ o.ctx.base_iri =
                          Some(IF IsSome(base) THEN ResolveUnchecked(Unwrap(base), v.s)
                               ELSE v.s)
                    /\ Appended("invalid base IRI") = 0
               ELSE o.ctx.base_iri = base /\ Appended("invalid base IRI") = 1

\* C35 witness: a string that does not resolve, met in non-lenient mode with
\* no remote context and a base IRI in the active context
C35_BadBaseRejected ==
    /\ EntryProcessed(At(KwBase))
    /\ call.remote_contexts = <<>>
    /\ ~call.lenient
    /\ IsSome(call.active_context.base_iri)
    /\ EntryValue(At(KwBase)) = NodeString(BadIri)


\* C36: @vocab in a context object: null clears vocabulary_mapping; a
\* string that starts with "_:", any string under lenient, and a string that
\* parses as an IRI are stored verbatim; a string that does not parse and a
\* non-string value append one diagnostic "invalid vocab mapping" and leave
\* vocabulary_mapping as it was.  The entry changes no other field of the
\* context.
C36_VocabEntry ==
    (EntryProcessed(At(KwVocab)) /\ call.local_context.entries \subseteq
        { e \in call.local_context.entries : e.key \in { At(KwVocab), At(KwProtected) } }) =>
        LET o == Unwrap(call.out)
            v == EntryValue(At(KwVocab))
            before == IF ~call.propagate /\ call.active_context.previous_context = None
                      THEN [call.active_context EXCEPT
                               !.previous_context = Some(call.active_context)]
                      ELSE call.active_context
            stored == \/ v.k = "Null"
                      \/ /\ v.k = "String"
                         /\ \/ StartsWith(v.s, <<"_", ":">>)
                            \/ call.lenient
                            \/ IriParseOk(v.s)
        IN  /\ ~o.abort
            /\ o.ctx = [before EXCEPT !.vocabulary_mapping =
                           IF v.k = "Null" THEN None
                           ELSE IF stored THEN Some(v.s)
                           ELSE @]
            /\ Appended("invalid vocab mapping") = (IF stored THEN 0 ELSE 1)

\* C36 witness: a string that does not parse as an IRI, met in non-lenient
\* mode against an active context that has a vocabulary mapping
C36_BadVocabRejected ==
    /\ EntryProcessed(At(KwVocab))
    /\ ~call.lenient
    /\ IsSome(call.active_context.vocabulary_mapping)
    /\ EntryValue(At(KwVocab)) = NodeString(BadIri)
    /\ Appended("invalid vocab mapping") = 1


(***************************************************************************)
(* The @version entry, in direct calls of process_context and in           *)
(* documents fed to the converter.                                         *)
(***************************************************************************)
VersionValues ==
    { JScalar(NodeNumber(<<"1", ".", "1">>)), JScalar(NodeNumber(<<"1", ".", "0">>)),
      JScalar(NodeNumber(<<"1", ".", "1", "0">>)), JString(<<"1", ".", "1">>),
      JScalar(NodeNull), JScalar(NodeBoolean(TRUE)) }

\* the members that follow or precede @version: none, or a @vocab entry
VersionRests == { <<>>, << JMember(At(KwVocab), JString(VocabIri)) >> }

\* {"@context": {"@version": v, ...}} and {"@context": {..., "@version": v}}
VersionDoc(v, rest, first) ==
    ContextDoc(JObj(IF first THEN << JMember(At(KwVersion), v) >> \o rest
                    ELSE rest \o << JMember(At(KwVersion), v) >>))

VersionDocs ==
    { VersionDoc(v, rest, first) : v \in VersionValues, rest \in VersionRests,
                                   first \in BOOLEAN }

InitVersion ==
    /\ results = <<>>
    /\ errors = <<>>
    /\ aborted = FALSE
    /\ open = <<>>
    /\ fed = 0
    /\ eof = FALSE
    /\ \/ /\ New(None, FALSE)
          /\ call \in { c \in ProcessContextCalls :
                          /\ c.local_context.k = "Object"
                          /\ IsSome(MapGet(c.local_context.entries, At(KwVersion))) }
       \/ /\ \E base_url \in {None, Some(BaseIri)}, len \in BOOLEAN : New(base_url, len)
          /\ call \in { FeedCall(doc) : doc \in VersionDocs }

NextVersion == CallProcessContext \/ FeedDoc

SpecVersion == InitVersion /\ [][NextVersion]_vars

\* the number of diagnostics of the code in the converter's buffer
Raised(code) == Cardinality({ i \in 1..Len(errors) : errors[i].code = code })

\* the @context value of the document has been buffered and processed, the
\* object's closing token has not been delivered yet
ContextValueFed ==
    /\ call.fn = "feed"
    /\ call.pos = Len(call.toks) - 2
    /\ ~aborted

\* C37: @version in a context object: the number 1.1 raises no diagnostic
\* "invalid @version value", any other number and any non-number raise
\* exactly one; in processing mode 1.0 the entry raises "processing mode
\* conflict" as well, once, and in mode 1.1 it does not; the returned
\* context is the one the call returns without the entry.  In a document,
\* where the converter calls the context processor in mode 1.0, a @context
\* object with @version raises "processing mode conflict" once, whatever
\* the version, and installs the context it would install without it.
C37_VersionEntry ==
    /\ EntryProcessed(At(KwVersion)) =>
          LET o == Unwrap(call.out)
              v == EntryValue(At(KwVersion))
              others == { e \in call.local_context.entries : e.key # At(KwVersion) }
          IN  /\ ~o.abort
              /\ Appended("invalid @version value") =
                     (IF v = NodeNumber(<<"1", ".", "1">>) THEN 0 ELSE 1)
              /\ Appended("processing mode conflict") =
                     (IF call.processing_mode = "JsonLd1_0" THEN 1 ELSE 0)
              /\ o.ctx \in { r.ctx : r \in
                     process_context(call.active_context, NodeObject(others), call.base_url,
                                     call.remote_contexts, call.override_protected,
                                     call.propagate, call.processing_mode, call.lenient) }
    /\ ContextValueFed =>
          \E v \in VersionValues, rest \in VersionRests, first \in BOOLEAN :
              /\ call.doc = VersionDoc(v, rest, first)
              /\ Raised("invalid @version value") =
                     (IF v = JScalar(NodeNumber(<<"1", ".", "1">>)) THEN 0 ELSE 1)
              /\ Raised("processing mode conflict") = 1
              /\ Len(context) = 2
              /\ context[2].ctx =
                     [DefaultContext EXCEPT !.vocabulary_mapping =
                         IF rest = <<>> THEN None ELSE Some(VocabIri)]

\* C37 witness: {"@context": {"@version": 1.1}} buffered and processed by
\* the converter
C37_Version11InDocument ==
    /\ ContextValueFed
    /\ call.doc = VersionDoc(JScalar(NodeNumber(<<"1", ".", "1">>)), <<>>, TRUE)
    /\ Raised("processing mode conflict") = 1
    /\ Raised("invalid @version value") = 0


\* the document {"@type": t, "@value": v}
TypeFirstDoc(v, t) ==
    JObj(<< JMember(At(KwType), JString(t)), JMember(At(KwValue), JString(v)) >>)

\* C38: the events of a value object whose only keys are @value (a string
\* v) and @type (a string t) do not depend on the order of the keys: with
\* @type after @value and with @type before @value the events are the one
\* event Value{String(v), Some(t), None}.
C38_KeyOrderIndependent ==
    \A v \in PairStrings, t \in PairStrings :
        (DocFed(ValuePairDoc(v, At(KwType), t)) \/ DocFed(TypeFirstDoc(v, t))) =>
            (~aborted /\ results = << EvValue(ValString(v), Some(t), None) >>)


\* the arm that convert_event takes for the token reaches a subtraction on
\* the top refcount: it calls pop_context, or it calls after_buffering and
\* process_context returns
DecrementsTop(tok) ==
    /\ tok.t # "Eof"
    /\ state # <<>>
    /\ context # <<>>
    /\ ~TooLarge(state)
    /\ LET arm == MatchState(StackTop(state), tok, context[Len(context)].ctx, lenient)
       IN  /\ ~arm.abort
           /\ \/ arm.cx = "pop"
              \/ /\ arm.cx = "buffered"
                 /\ \E pc \in process_context(DefaultContext, arm.node, None, <<>>, FALSE,
                                              TRUE, "JsonLd1_0", lenient) : ~pc.abort

\* C39: refcounts never underflow: whenever a token of a well-formed
\* stream makes pop_context or after_buffering decrement the top entry of
\* the context stack, that entry's refcount is at least 1.
C39_NoUnderflow ==
    [][ \A tok \in ScopeTokens :
           (FeedScoped(tok) /\ DecrementsTop(tok)) =>
               context[Len(context)].refcount >= 1 ]_vars


(***************************************************************************)
(* The HTTP client (sparql/http/simple.rs).  A result is Ok with the       *)
(* content type and the body, or an Err with the kind of the io::Error,    *)
(* its message and the values the message interpolates.  A reply is what   *)
(* oxhttp's client.request returns: a transport error, or a response with  *)
(* a status, a Content-Type header (absent, text, or bytes that to_str     *)
(* rejects) and a payload (text, or bytes that Body::to_string rejects).   *)
(***************************************************************************)
\* Error::new(ErrorKind::InvalidData, error)
invalid_data_error(msg, url) ==
    [ok |-> FALSE, content_type |-> "", body |-> None,
     kind |-> "InvalidData", msg |-> msg, status |-> 0, url |-> url]

\* Error::new(ErrorKind::InvalidInput, error)
invalid_input_error(msg) ==
    [ok |-> FALSE, content_type |-> "", body |-> None,
     kind |-> "InvalidInput", msg |-> msg, status |-> 0, url |-> ""]

\* Client::get
get(url, accept, reply) ==
    LET Err(kind, msg, status, u) ==
            [ok |-> FALSE, content_type |-> "", body |-> None,
             kind |-> kind, msg |-> msg, status |-> status, url |-> u]
        Ok(content_type, body) ==
            [ok |-> TRUE, content_type |-> content_type, body |-> body,
             kind |-> "", msg |-> "", status |-> 0, url |-> ""]
    IN  IF ~url.uri THEN invalid_input_error("invalid uri")
        ELSE IF ~reply.sent THEN Err(reply.error, "request failed", 0, "")
        ELSE IF ~(reply.status >= 200 /\ reply.status < 300)
        THEN IF IsSome(reply.payload)
             THEN Err("Other", "Error {} returned by {} with payload:\n{}",
                      reply.status, url.s)
             ELSE Err("InvalidData", "stream did not contain valid UTF-8", 0, "")
        ELSE IF reply.content_type = None
        THEN invalid_data_error("No Content-Type returned by {url}", url.s)
        ELSE IF ~Unwrap(reply.content_type).text
        THEN invalid_data_error("failed to convert header to a str", "")
        ELSE Ok(Unwrap(reply.content_type).s, reply.payload)

\* Client::post
post(url, payload, content_type, accept, reply) ==
    LET Err(kind, msg, status, u) ==
            [ok |-> FALSE, content_type |-> "", body |-> None,
             kind |-> kind, msg |-> msg, status |-> status, url |-> u]
        Ok(ct, body) ==
            [ok |-> TRUE, content_type |-> ct, body |-> body,
             kind |-> "", msg |-> "", status |-> 0, url |-> ""]
    IN  IF ~url.uri THEN invalid_input_error("invalid uri")
        ELSE IF ~reply.sent THEN Err(reply.error, "request failed", 0, "")
        ELSE IF ~(reply.status >= 200 /\ reply.status < 300)
        THEN IF IsSome(reply.payload)
             THEN Err("Other", "Error {} returned by {} with payload:\n{}",
                      reply.status, url.s)
             ELSE Err("InvalidData", "stream did not contain valid UTF-8", 0, "")
        ELSE IF reply.content_type = None
        THEN invalid_data_error("No Content-Type returned by {url}", url.s)
        ELSE IF ~Unwrap(reply.content_type).text
        THEN invalid_data_error("failed to convert header to a str", "")
        ELSE Ok(Unwrap(reply.content_type).s, reply.payload)

\* the URLs of the calls: uri tells whether Request::builder().uri accepts it
HttpUrls == { [s |-> "http://e/q", uri |-> TRUE], [s |-> "<q", uri |-> FALSE] }

HttpStatuses == { 200, 204, 301, 404, 500 }

\* the Content-Type header of a response
HttpContentTypes ==
    { None, Some([s |-> "application/json", text |-> TRUE]),
      Some([s |-> "", text |-> FALSE]) }

\* the payload of a response: text, or bytes that are not UTF-8
HttpPayloads == { Some("x"), None }

HttpReplies ==
    [ sent : {TRUE}, error : {""}, status : HttpStatuses,
      content_type : HttpContentTypes, payload : HttpPayloads ]
    \cup
    [ sent : {FALSE}, error : {"ConnectionRefused", "TimedOut"}, status : {0},
      content_type : {None}, payload : {None} ]

HttpCalls ==
    [ fn : {"get", "post"}, url : HttpUrls, reply : HttpReplies, out : {None} ]

InitHttp ==
    /\ New(None, FALSE)
    /\ results = <<>>
    /\ errors = <<>>
    /\ aborted = FALSE
    /\ open = <<>>
    /\ fed = 0
    /\ eof = FALSE
    /\ call \in HttpCalls

CallGet ==
    /\ call.fn = "get"
    /\ call.out = None
    /\ call' = [call EXCEPT !.out = Some(get(call.url, "application/json", call.reply))]
    /\ UNCHANGED << state, context, is_end, lenient, results, errors, aborted, open,
                    fed, eof >>

CallPost ==
    /\ call.fn = "post"
    /\ call.out = None
    /\ call' = [call EXCEPT !.out = Some(post(call.url, "q", "application/sparql-query",
                                              "application/json", call.reply))]
    /\ UNCHANGED << state, context, is_end, lenient, results, errors, aborted, open,
                    fed, eof >>

NextHttp == CallGet \/ CallPost

SpecHttp == InitHttp /\ [][NextHttp]_vars

\* get or post has returned
HttpReturned == call.fn \in {"get", "post"} /\ IsSome(call.out)

\* the request was built and the server answered
Answered == call.url.uri /\ call.reply.sent

IsSuccess(status) == status >= 200 /\ status < 300

\* C40: get and post return Ok((content_type, body)) only when the status
\* is a success status and the response carries a Content-Type header
\* readable as text; a non-success status always yields an Err whose
\* message names the status and the URL; with a success status a missing
\* or unreadable Content-Type yields an InvalidData error; a request that
\* cannot be built yields an InvalidInput error.
C40_HttpResults ==
    HttpReturned =>
        LET o == Unwrap(call.out)
            r == call.reply
        IN  /\ o.ok => /\ Answered
                       /\ IsSuccess(r.status)
                       /\ IsSome(r.content_type)
                       /\ Unwrap(r.content_type).text
                       /\ o.content_type = Unwrap(r.content_type).s
                       /\ o.body = r.payload
            /\ (Answered /\ ~IsSuccess(r.status)) =>
                   /\ ~o.ok
                   /\ o.status = r.status
                   /\ o.url = call.url.s
            /\ (Answered /\ IsSuccess(r.status)
                  /\ (r.content_type = None \/ ~Unwrap(r.content_type).text)) =>
                   (~o.ok /\ o.kind = "InvalidData")
            /\ ~call.url.uri => (~o.ok /\ o.kind = "InvalidInput")

=============================================================================
